---- MODULE Spec2Model ----
(***************************************************************************)
(* Model of the Laneful Node.js client: the dispatch core of LanefulClient *)
(* (validation gate, fixed-window rate limiter, retry loop, response       *)
(* classification and per-email result reconciliation).                    *)
(*                                                                         *)
(* Conventions.  A JavaScript string is a TLA+ string; template literals   *)
(* are concatenations (\o).  An optional value (T | undefined) is a        *)
(* sequence of length 0 or 1: None for undefined, Some(x) for x.  An email *)
(* address is kept as a sequence of one-character strings so that the      *)
(* address pattern can be evaluated character by character; Join turns it  *)
(* into the string that appears in messages.  The free-form maps of an     *)
(* email (templateData, headers, webhookData) are opaque strings.          *)
(***************************************************************************)
EXTENDS Integers, Sequences, FiniteSets, TLC

None == <<>>

Some(x) == <<x>>

IsSome(o) == Len(o) > 0

Get(o) == o[1]

RECURSIVE Join(_)
Join(cs) == IF cs = <<>> THEN "" ELSE Head(cs) \o Join(Tail(cs))

Min(a, b) == IF a <= b THEN a ELSE b

Range(s) == {s[i] : i \in DOMAIN s}

(***************************************************************************)
(* Bounds of the model.                                                    *)
(***************************************************************************)
\* longest email list handed to sendEmails
MaxEmails == 2

\* number of clock ticks the model follows
MaxTicks == 2

\* Math.random() returns k / RandDen for k in 0..RandDen-1
RandDen == 2

\* most elements of a batch payload of processWebhook
MaxBatch == 2

\* longest webhook payload, in characters (string) or bytes (Buffer)
MaxPayloadLen == 2

(***************************************************************************)
(* models/Address.ts                                                       *)
(***************************************************************************)
Letters == {"a","b","c","d","e","f","g","h","i","j","k","l","m","n","o","p",
            "q","r","s","t","u","v","w","x","y","z",
            "A","B","C","D","E","F","G","H","I","J","K","L","M","N","O","P",
            "Q","R","S","T","U","V","W","X","Y","Z"}

Digits == {"0","1","2","3","4","5","6","7","8","9"}

\* [a-zA-Z0-9]
AlnumChars == Letters \cup Digits

\* [a-zA-Z0-9.!#$%&'*+/=?^_{|}~-] and the grave accent, which a TLA+
\* string cannot hold and which is written "grave" here
LocalChars == AlnumChars \cup {".","!","#","$","%","&","'","*","+","/","=",
                               "?","^","_","grave","{","|","}","~","-"}

\* [a-zA-Z0-9-]
LabelChars == AlnumChars \cup {"-"}

MaxAddressLen == 254

MaxLocalLen == 64

MaxDomainLen == 253

\* {0,61} in the label pattern: a label has at most 63 characters
MaxLabelMiddle == 61

\* String.prototype.split on a one-character separator
RECURSIVE Split(_, _)
Split(cs, sep) ==
  IF cs = <<>> THEN << <<>> >>
  ELSE LET rest == Split(Tail(cs), sep)
       IN IF Head(cs) = sep
            THEN << <<>> >> \o rest
            ELSE << <<Head(cs)>> \o Head(rest) >> \o Tail(rest)

\* [a-zA-Z0-9](?:[a-zA-Z0-9-]{0,61}[a-zA-Z0-9])?
LabelMatches(l) ==
  /\ Len(l) >= 1
  /\ Len(l) <= MaxLabelMiddle + 2
  /\ l[1] \in AlnumChars
  /\ l[Len(l)] \in AlnumChars
  /\ \A i \in 1..Len(l) : l[i] \in LabelChars

\* emailRegex.test(address.email)
EmailRegexMatches(cs) ==
  LET parts == Split(cs, "@")
  IN /\ Len(parts) = 2
     /\ Len(parts[1]) >= 1
     /\ \A i \in 1..Len(parts[1]) : parts[1][i] \in LocalChars
     /\ LET labels == Split(parts[2], ".")
        IN \A i \in 1..Len(labels) : LabelMatches(labels[i])

\* validateAddress: None when the address is accepted, Some(message thrown)
validateAddress(address) ==
  IF address.email = <<>>
    THEN Some("Address must have a valid email string")
  ELSE IF ~EmailRegexMatches(address.email)
    THEN Some("Invalid email format: " \o Join(address.email))
  ELSE IF Len(address.email) > MaxAddressLen
    THEN Some("Email address too long (max 254 characters)")
  ELSE LET emailParts == Split(address.email, "@")
       IN IF Len(emailParts) # 2
            THEN Some("Invalid email format: missing @ symbol")
          ELSE IF Len(emailParts[1]) > MaxLocalLen
            THEN Some("Email local part too long (max 64 characters)")
          ELSE IF Len(emailParts[2]) > MaxDomainLen
            THEN Some("Email domain too long (max 253 characters)")
          ELSE None

addressToApiFormat(address) ==
  [email |-> Join(address.email),
   name  |-> IF address.name # "" THEN Some(address.name) ELSE None]

(***************************************************************************)
(* models/Attachment.ts, models/TrackingSettings.ts                        *)
(***************************************************************************)
validateAttachment(attachment) ==
  IF attachment.contentType = ""
    THEN Some("Attachment must have a valid contentType string")
  ELSE IF attachment.fileName = "" /\ attachment.inlineId = ""
    THEN Some("Either fileName or inlineId is required for attachments")
  ELSE None

attachmentToApiFormat(attachment) ==
  [content_type |-> attachment.contentType,
   file_name    |-> IF attachment.fileName # "" THEN Some(attachment.fileName) ELSE None,
   content      |-> IF attachment.content # "" THEN Some(attachment.content) ELSE None,
   inline_id    |-> IF attachment.inlineId # "" THEN Some(attachment.inlineId) ELSE None]

trackingSettingsToApiFormat(tracking) ==
  [opens         |-> IF IsSome(tracking.opens) THEN Get(tracking.opens) ELSE TRUE,
   clicks        |-> IF IsSome(tracking.clicks) THEN Get(tracking.clicks) ELSE TRUE,
   unsubscribes  |-> IF IsSome(tracking.unsubscribes) THEN Get(tracking.unsubscribes) ELSE TRUE,
   unsubscribe_group_id |-> tracking.unsubscribeGroupId]

(***************************************************************************)
(* models/Email.ts                                                         *)
(***************************************************************************)
\* first message thrown by a forEach over a list of validations, if any
RECURSIVE FirstSome(_)
FirstSome(msgs) ==
  IF msgs = <<>> THEN None
  ELSE IF IsSome(Head(msgs)) THEN Head(msgs) ELSE FirstSome(Tail(msgs))

ToAddressError(addr, index) ==
  LET e == validateAddress(addr)
  IN IF IsSome(e)
       THEN Some("Invalid 'to' address at index " \o ToString(index) \o ": Error: " \o Get(e))
       ELSE None

CcAddressError(addr, index) ==
  LET e == validateAddress(addr)
  IN IF IsSome(e)
       THEN Some("Invalid 'cc' address at index " \o ToString(index) \o ": Error: " \o Get(e))
       ELSE None

BccAddressError(addr, index) ==
  LET e == validateAddress(addr)
  IN IF IsSome(e)
       THEN Some("Invalid 'bcc' address at index " \o ToString(index) \o ": Error: " \o Get(e))
       ELSE None

AttachmentError(attachment, index) ==
  LET e == validateAttachment(attachment)
  IN IF IsSome(e)
       THEN Some("Invalid attachment at index " \o ToString(index) \o ": Error: " \o Get(e))
       ELSE None

\* validateEmail: None when the email is accepted, Some(message thrown)
validateEmail(email) ==
  IF ~IsSome(email.from)
    THEN Some("Email must have a from address")
  ELSE IF IsSome(validateAddress(Get(email.from)))
    THEN validateAddress(Get(email.from))
  ELSE IF email.subject = ""
    THEN Some("Email must have a valid subject string")
  ELSE IF email.textContent = "" /\ email.htmlContent = "" /\ email.templateId = ""
    THEN Some("Email must have either textContent, htmlContent, or templateId")
  ELSE IF ~(Len(email.to) > 0 \/ Len(email.cc) > 0 \/ Len(email.bcc) > 0)
    THEN Some("Email must have at least one recipient (to, cc, or bcc)")
  ELSE IF IsSome(FirstSome([i \in 1..Len(email.to) |-> ToAddressError(email.to[i], i - 1)]))
    THEN FirstSome([i \in 1..Len(email.to) |-> ToAddressError(email.to[i], i - 1)])
  ELSE IF IsSome(FirstSome([i \in 1..Len(email.cc) |-> CcAddressError(email.cc[i], i - 1)]))
    THEN FirstSome([i \in 1..Len(email.cc) |-> CcAddressError(email.cc[i], i - 1)])
  ELSE IF IsSome(FirstSome([i \in 1..Len(email.bcc) |-> BccAddressError(email.bcc[i], i - 1)]))
    THEN FirstSome([i \in 1..Len(email.bcc) |-> BccAddressError(email.bcc[i], i - 1)])
  ELSE IF IsSome(email.replyTo) /\ IsSome(validateAddress(Get(email.replyTo)))
    THEN Some("Invalid 'replyTo' address: Error: "
              \o Get(validateAddress(Get(email.replyTo))))
  ELSE FirstSome([i \in 1..Len(email.attachments) |-> AttachmentError(email.attachments[i], i - 1)])

emailToApiFormat(email) ==
  [from          |-> addressToApiFormat(Get(email.from)),
   subject       |-> email.subject,
   to            |-> [i \in 1..Len(email.to) |-> addressToApiFormat(email.to[i])],
   cc            |-> [i \in 1..Len(email.cc) |-> addressToApiFormat(email.cc[i])],
   bcc           |-> [i \in 1..Len(email.bcc) |-> addressToApiFormat(email.bcc[i])],
   text_content  |-> email.textContent,
   html_content  |-> email.htmlContent,
   template_id   |-> email.templateId,
   template_data |-> IF IsSome(email.templateData) THEN Get(email.templateData) ELSE "{}",
   attachments   |-> [i \in 1..Len(email.attachments) |-> attachmentToApiFormat(email.attachments[i])],
   headers       |-> IF IsSome(email.headers) THEN Get(email.headers) ELSE "{}",
   send_time     |-> IF IsSome(email.sendTime) THEN Get(email.sendTime) ELSE 0,
   webhook_data  |-> IF IsSome(email.webhookData) THEN Get(email.webhookData) ELSE "{}",
   tag           |-> email.tag,
   reply_to      |-> IF IsSome(email.replyTo)
                       THEN Some(addressToApiFormat(Get(email.replyTo)))
                       ELSE None,
   tracking      |-> IF IsSome(email.tracking)
                       THEN Some(trackingSettingsToApiFormat(Get(email.tracking)))
                       ELSE None]

(***************************************************************************)
(* Inputs: the emails a caller may pass.                                   *)
(***************************************************************************)
Addr(cs, n) == [email |-> cs, name |-> n]

Sender == Addr(<<"s","@","x",".","i","o">>, "Sender")

Recipient == Addr(<<"r","@","y",".","i","o">>, "")

\* no "@"
BadAddress == Addr(<<"b","a","d">>, "")

BaseEmail ==
  [from |-> Some(Sender), subject |-> "Test Subject", to |-> <<Recipient>>,
   cc |-> <<>>, bcc |-> <<>>, textContent |-> "Test content",
   htmlContent |-> "", templateId |-> "", templateData |-> None,
   attachments |-> <<>>, headers |-> None, replyTo |-> None,
   sendTime |-> None, webhookData |-> None, tag |-> "", tracking |-> None]

ValidEmail == BaseEmail

SecondEmail ==
  [BaseEmail EXCEPT !.subject = "Second Email", !.to = <<>>,
                    !.cc = <<Recipient>>, !.textContent = "",
                    !.htmlContent = "<h1>Hi</h1>", !.replyTo = Some(Sender),
                    !.attachments = <<[contentType |-> "text/plain",
                                       fileName |-> "a.txt", content |-> "YQ==",
                                       inlineId |-> ""]>>,
                    !.tracking = Some([opens |-> Some(FALSE), clicks |-> None,
                                       unsubscribes |-> None,
                                       unsubscribeGroupId |-> None])]

NoFromEmail == [BaseEmail EXCEPT !.from = None]

BadToEmail == [BaseEmail EXCEPT !.to = <<Recipient, BadAddress>>]

EmailPool == {ValidEmail, SecondEmail, NoFromEmail, BadToEmail}

RECURSIVE SeqsUpTo(_, _)
SeqsUpTo(S, n) ==
  IF n = 0 THEN {<<>>}
  ELSE LET shorter == SeqsUpTo(S, n - 1)
       IN shorter \cup {Append(s, x) : s \in shorter, x \in S}

EmailLists == SeqsUpTo(EmailPool, MaxEmails)

(***************************************************************************)
(* exceptions: an error value carries its class name and message; an       *)
(* AxiosError also its code and, possibly, a response.                     *)
(***************************************************************************)
Err(n, m) == [name |-> n, message |-> m, code |-> "", statusCode |-> 0, response |-> None]

LanefulError(m) == Err("LanefulError", m)

LanefulAPIError(m, statusCode) == [Err("LanefulAPIError", m) EXCEPT !.statusCode = statusCode]

LanefulAuthError(m) == Err("LanefulAuthError", m)

LanefulValidationError(m) == Err("LanefulValidationError", m)

TypeError(m) == Err("TypeError", m)

\* error instanceof LanefulError
IsLanefulError(e) ==
  e.name \in {"LanefulError", "LanefulAPIError", "LanefulAuthError", "LanefulValidationError"}

\* axios.isAxiosError(error)
isAxiosError(e) == e.name = "AxiosError"

\* `${error}`: Error.prototype.toString
ErrorToString(e) == e.name \o ": " \o e.message

(***************************************************************************)
(* The HTTP layer.  The axios instance is created with                     *)
(* validateStatus: () => true, so a request settles in one of two ways: it *)
(* resolves with the response, whatever its status, or it rejects with an  *)
(* AxiosError that has a code and no response.                             *)
(***************************************************************************)
TransportCodes == {"ECONNABORTED", "ECONNREFUSED", "ENOTFOUND", "ETIMEDOUT", "ERR_NETWORK"}

\* timeout, connection refused, DNS failure, connection timeout
RetryableCodes == {"ECONNABORTED", "ECONNREFUSED", "ENOTFOUND", "ETIMEDOUT"}

AxiosMessage(code) ==
  CASE code = "ECONNABORTED" -> "timeout of 30000ms exceeded"
    [] code = "ECONNREFUSED" -> "connect ECONNREFUSED"
    [] code = "ENOTFOUND"    -> "getaddrinfo ENOTFOUND"
    [] code = "ETIMEDOUT"    -> "connect ETIMEDOUT"
    [] OTHER                 -> "Network Error"

AxiosError(code) == [Err("AxiosError", AxiosMessage(code)) EXCEPT !.code = code]

Statuses == {200, 400, 401, 429, 500, 501}

\* a JSON object: the fields the client reads; isNull is JSON null
Obj(st, er, ms) ==
  [isNull |-> FALSE, status |-> st, error |-> er, message |-> ms, data |-> None]

NullData == [Obj(None, None, None) EXCEPT !.isNull = TRUE]

ObjectBody(o) == [kind |-> "object", text |-> "", obj |-> o]

StringBody(t) == [kind |-> "string", text |-> t, obj |-> Obj(None, None, None)]

\* neither a string nor a non-null object (undefined, a number, null)
OtherBody == [kind |-> "other", text |-> "", obj |-> Obj(None, None, None)]

AcceptedBody == ObjectBody(Obj(Some("accepted"), None, None))

ErrorBody(x) == ObjectBody(Obj(None, Some(x), None))

BodyPool ==
  {AcceptedBody,
   ErrorBody("Invalid email"),
   ErrorBody(""),
   ObjectBody(Obj(None, None, Some("Bad request"))),
   ObjectBody(Obj(None, None, None)),
   StringBody("{\"status\":\"accepted\"}"),
   StringBody("{\"error\":\"Quota exceeded\"}"),
   StringBody("Service Unavailable"),
   StringBody("null"),
   OtherBody}

\* every status with the two documented body shapes, and every body shape
\* under a success status and under an error status
Responses ==
  [status : Statuses, data : {AcceptedBody, ErrorBody("Invalid email")}]
    \cup [status : {200, 400}, data : BodyPool]

\* JSON.parse on the texts of BodyPool: None when it throws
JsonParse(text) ==
  CASE text = "{\"status\":\"accepted\"}"      -> Some(Obj(Some("accepted"), None, None))
    [] text = "{\"error\":\"Quota exceeded\"}" -> Some(Obj(None, Some("Quota exceeded"), None))
    [] text = "null"                           -> Some(NullData)
    [] OTHER                                   -> None

(***************************************************************************)
(* client/LanefulClient.ts: the pure parts                                 *)
(***************************************************************************)
DefaultMaxRetries == 3

DefaultBaseDelay == 1000

DefaultMaxDelay == 10000

DefaultBackoffMultiplier == 2

\* the default jitter 0.1 as the fraction DefaultJitterNum / JitterDen
DefaultJitterNum == 1

JitterDen == 10

\* the retry defaults of the constructor, options.retry?.x ?? default
RetryDefaults(retry) ==
  [maxRetries        |-> IF IsSome(retry.maxRetries) THEN Get(retry.maxRetries)
                                                     ELSE DefaultMaxRetries,
   baseDelay         |-> IF IsSome(retry.baseDelay) THEN Get(retry.baseDelay)
                                                    ELSE DefaultBaseDelay,
   maxDelay          |-> IF IsSome(retry.maxDelay) THEN Get(retry.maxDelay)
                                                   ELSE DefaultMaxDelay,
   backoffMultiplier |-> IF IsSome(retry.backoffMultiplier) THEN Get(retry.backoffMultiplier)
                                                            ELSE DefaultBackoffMultiplier,
   jitterNum         |-> IF IsSome(retry.jitterNum) THEN Get(retry.jitterNum)
                                                    ELSE DefaultJitterNum]

RECURSIVE Pow(_, _)
Pow(b, e) == IF e = 0 THEN 1 ELSE b * Pow(b, e - 1)

\* mutant of calculateRetryDelay: the delay grows linearly from zero
calculateRetryDelayLinear(opts, attempt, k) ==
  LET exponentialDelay == Min(opts.baseDelay * opts.backoffMultiplier * attempt,
                              opts.maxDelay)
  IN (exponentialDelay * JitterDen * RandDen + exponentialDelay * opts.jitterNum * k)
       \div (JitterDen * RandDen)

\* calculateRetryDelay(attempt) when Math.random() returns k / RandDen
calculateRetryDelay(opts, attempt, k) ==
  LET exponentialDelay == Min(opts.baseDelay * Pow(opts.backoffMultiplier, attempt),
                              opts.maxDelay)
  IN (exponentialDelay * JitterDen * RandDen + exponentialDelay * opts.jitterNum * k)
       \div (JitterDen * RandDen)

\* mutant of isRetryableError: every error is retried
isRetryableErrorAlways(error) == TRUE

\* isRetryableError(error)
isRetryableError(error) ==
  /\ isAxiosError(error)
  /\ \/ error.code \in {"ECONNABORTED", "ECONNREFUSED", "ENOTFOUND", "ETIMEDOUT"}
     \/ /\ IsSome(error.response)
        /\ Get(error.response).status >= 500
        /\ Get(error.response).status # 501
     \/ /\ IsSome(error.response)
        /\ Get(error.response).status = 429

\* the outcome of a function call: a returned value or a thrown error
Returned(v) == [thrown |-> FALSE, value |-> Some(v), error |-> None]

Thrown(e) == [thrown |-> TRUE, value |-> None, error |-> Some(e)]

\* mutant of processResponse: the message of the API error ignores the body
processResponseIgnoringBody(response) ==
  IF response.status = 401
    THEN Thrown(LanefulAuthError("Invalid authentication token"))
  ELSE IF response.status >= 400
    THEN Thrown(LanefulAPIError("HTTP " \o ToString(response.status), response.status))
  ELSE Returned(IF response.data.kind = "string" /\ IsSome(JsonParse(response.data.text))
                  THEN Get(JsonParse(response.data.text))
                ELSE IF response.data.kind = "string"
                  THEN Obj(None, None, Some(response.data.text))
                ELSE response.data.obj)

\* mutant of processResponse: 401 is handled like any other error status
processResponseWithout401(response) ==
  LET responseData ==
        IF response.data.kind = "string"
          THEN IF IsSome(JsonParse(response.data.text))
                 THEN Get(JsonParse(response.data.text))
                 ELSE Obj(None, None, Some(response.data.text))
          ELSE response.data.obj
  IN IF response.status >= 400
       THEN IF responseData.isNull
              THEN Thrown(TypeError("Cannot read properties of null (reading 'error')"))
            ELSE Thrown(LanefulAPIError(
                   IF IsSome(responseData.error) THEN Get(responseData.error)
                   ELSE IF IsSome(responseData.message) THEN Get(responseData.message)
                   ELSE "HTTP " \o ToString(response.status),
                   response.status))
     ELSE Returned(responseData)

\* processResponse(response)
processResponse(response) ==
  LET data == response.data
      parsed == JsonParse(data.text)
      responseData ==
        IF data.kind = "string"
          THEN IF IsSome(parsed) THEN Get(parsed)
                                 ELSE Obj(None, None, Some(data.text))
        ELSE IF data.kind = "object" THEN data.obj
        ELSE [Obj(None, None, None) EXCEPT !.data = Some("undefined")]
  IN IF response.status = 401
       THEN Thrown(LanefulAuthError("Invalid authentication token"))
     ELSE IF response.status >= 400
       THEN IF responseData.isNull
              THEN Thrown(TypeError("Cannot read properties of null (reading 'error')"))
            ELSE Thrown(LanefulAPIError(
                   IF IsSome(responseData.error) THEN Get(responseData.error)
                   ELSE IF IsSome(responseData.message) THEN Get(responseData.message)
                   ELSE "HTTP " \o ToString(response.status),
                   response.status))
     ELSE Returned(responseData)

EmailResponse(st, idx, er, ok) ==
  [status |-> st, index |-> idx, error |-> er, success |-> ok]

\* mutant of processEmailsResponse: the accepted status is not recognised
processEmailsResponseNeverAccepted(responseData, validEmailData) ==
  IF responseData.isNull
    THEN Thrown(TypeError("Cannot read properties of null (reading 'status')"))
  ELSE Returned([i \in 1..Len(validEmailData) |->
                   EmailResponse("failed", validEmailData[i].originalIndex,
                                 Some(IF IsSome(responseData.error) /\ Get(responseData.error) # ""
                                        THEN Get(responseData.error)
                                        ELSE "Unknown error"),
                                 FALSE)])

\* processEmailsResponse(responseData, validEmailData, totalEmailCount)
processEmailsResponse(responseData, validEmailData) ==
  IF responseData.isNull
    THEN Thrown(TypeError("Cannot read properties of null (reading 'status')"))
  ELSE IF responseData.status = Some("accepted")
    THEN Returned([i \in 1..Len(validEmailData) |->
                     EmailResponse("accepted", validEmailData[i].originalIndex, None, TRUE)])
  ELSE LET errorMessage ==
             IF IsSome(responseData.error) /\ Get(responseData.error) # ""
               THEN Get(responseData.error)
               ELSE "Unknown error"
       IN Returned([i \in 1..Len(validEmailData) |->
                      EmailResponse("failed", validEmailData[i].originalIndex,
                                    Some(errorMessage), FALSE)])

\* Math.ceil(a / b) for b > 0
CeilDiv(a, b) == -((-a) \div b)

MsPerSecond == 1000

\* mutant of checkRateLimit: the counter is counted but never compared
checkRateLimitNeverRefuses(opts, rc, ws, t) ==
  IF ~IsSome(opts)
    THEN [requestCount |-> rc, windowStart |-> ws, error |-> None]
  ELSE LET reset == t - ws >= Get(opts).windowMs
       IN [requestCount |-> Min(IF reset THEN 1 ELSE rc + 1, Get(opts).maxRequests + 1),
           windowStart |-> IF reset THEN t ELSE ws, error |-> None]

\* mutant of checkRateLimit: an elapsed window is not reset
checkRateLimitWithoutReset(opts, rc, ws, t) ==
  IF ~IsSome(opts)
    THEN [requestCount |-> rc, windowStart |-> ws, error |-> None]
  ELSE IF rc >= Get(opts).maxRequests
    THEN [requestCount |-> rc, windowStart |-> ws,
          error |-> Some(LanefulError("Rate limit exceeded. Try again in "
                           \o ToString(CeilDiv(Get(opts).windowMs - (t - ws), MsPerSecond))
                           \o " seconds."))]
    ELSE [requestCount |-> rc + 1, windowStart |-> ws, error |-> None]

\* mutant of checkRateLimit: a call that passes is counted twice
checkRateLimitCountingTwice(opts, rc, ws, t) ==
  IF ~IsSome(opts)
    THEN [requestCount |-> rc, windowStart |-> ws, error |-> None]
  ELSE LET windowElapsed == t - ws
           reset == windowElapsed >= Get(opts).windowMs
           ws1 == IF reset THEN t ELSE ws
           rc1 == IF reset THEN 0 ELSE rc
           waitTime == Get(opts).windowMs - windowElapsed
       IN IF rc1 >= Get(opts).maxRequests
            THEN [requestCount |-> rc1, windowStart |-> ws1,
                  error |-> Some(LanefulError("Rate limit exceeded. Try again in "
                                   \o ToString(CeilDiv(waitTime, MsPerSecond))
                                   \o " seconds."))]
            ELSE [requestCount |-> rc1 + 2, windowStart |-> ws1, error |-> None]

\* mutant of checkRateLimit: a call is refused only above maxRequests
checkRateLimitOffByOne(opts, rc, ws, t) ==
  IF ~IsSome(opts)
    THEN [requestCount |-> rc, windowStart |-> ws, error |-> None]
  ELSE LET windowElapsed == t - ws
           reset == windowElapsed >= Get(opts).windowMs
           ws1 == IF reset THEN t ELSE ws
           rc1 == IF reset THEN 0 ELSE rc
           waitTime == Get(opts).windowMs - windowElapsed
       IN IF rc1 > Get(opts).maxRequests
            THEN [requestCount |-> rc1, windowStart |-> ws1,
                  error |-> Some(LanefulError("Rate limit exceeded. Try again in "
                                   \o ToString(CeilDiv(waitTime, MsPerSecond))
                                   \o " seconds."))]
            ELSE [requestCount |-> rc1 + 1, windowStart |-> ws1, error |-> None]

\* mutant of checkRateLimit: a refused call is counted too
checkRateLimitCountingRefused(opts, rc, ws, t) ==
  IF ~IsSome(opts)
    THEN [requestCount |-> rc, windowStart |-> ws, error |-> None]
  ELSE LET windowElapsed == t - ws
           reset == windowElapsed >= Get(opts).windowMs
           ws1 == IF reset THEN t ELSE ws
           rc1 == IF reset THEN 0 ELSE rc
           waitTime == Get(opts).windowMs - windowElapsed
       IN IF rc1 >= Get(opts).maxRequests
            THEN [requestCount |-> rc1 + 1, windowStart |-> ws1,
                  error |-> Some(LanefulError("Rate limit exceeded. Try again in "
                                   \o ToString(CeilDiv(waitTime, MsPerSecond))
                                   \o " seconds."))]
            ELSE [requestCount |-> rc1 + 1, windowStart |-> ws1, error |-> None]

\* checkRateLimit() at time t: the limiter state it leaves and the error it
\* throws, if any
checkRateLimit(opts, rc, ws, t) ==
  IF ~IsSome(opts)
    THEN [requestCount |-> rc, windowStart |-> ws, error |-> None]
  ELSE LET windowElapsed == t - ws
           reset == windowElapsed >= Get(opts).windowMs
           ws1 == IF reset THEN t ELSE ws
           rc1 == IF reset THEN 0 ELSE rc
           waitTime == Get(opts).windowMs - windowElapsed
       IN IF rc1 >= Get(opts).maxRequests
            THEN [requestCount |-> rc1, windowStart |-> ws1,
                  error |-> Some(LanefulError("Rate limit exceeded. Try again in "
                                   \o ToString(CeilDiv(waitTime, MsPerSecond))
                                   \o " seconds."))]
            ELSE [requestCount |-> rc1 + 1, windowStart |-> ws1, error |-> None]

\* the validation loop of sendEmails: the { index, error } of the emails
\* that validateEmail rejects, in list order
RECURSIVE ValidationErrors(_, _)
ValidationErrors(emails, i) ==
  IF i > Len(emails) THEN <<>>
  ELSE LET e == validateEmail(emails[i])
       IN (IF IsSome(e) THEN <<[index |-> i - 1, error |-> Get(e)]>> ELSE <<>>)
            \o ValidationErrors(emails, i + 1)

\* ... and the { data, originalIndex } of those it accepts
RECURSIVE ValidEmailData(_, _)
ValidEmailData(emails, i) ==
  IF i > Len(emails) THEN <<>>
  ELSE (IF IsSome(validateEmail(emails[i]))
          THEN <<>>
          ELSE <<[data |-> emailToApiFormat(emails[i]), originalIndex |-> i - 1]>>)
         \o ValidEmailData(emails, i + 1)

\* validationErrors.map((e) => `[${e.index}] ${e.error}`).join(', ')
RECURSIVE JoinErrors(_)
JoinErrors(errs) ==
  IF errs = <<>> THEN ""
  ELSE "[" \o ToString(Head(errs).index) \o "] " \o Head(errs).error
         \o (IF Tail(errs) = <<>> THEN "" ELSE ", " \o JoinErrors(Tail(errs)))

\* mutant of AllFailedValidation: the check is missing
AllFailedValidationSkipped(validEmailData) == FALSE

\* mutant of validateEmailsList: an empty list is let through
validateEmailsListSkipped(emails) == None

\* validateEmailsList(emails): the error it throws, if any (the argument is
\* an array here, as the parameter type says)
validateEmailsList(emails) ==
  IF Len(emails) = 0
    THEN Some(LanefulValidationError("Email list cannot be empty"))
    ELSE None

\* "If all emails failed validation, throw an error"
AllFailedValidation(validEmailData) == Len(validEmailData) = 0

\* responses.splice(index, 0, item)
Splice(responses, index, item) ==
  LET pos == Min(index, Len(responses))
  IN SubSeq(responses, 1, pos) \o <<item>> \o SubSeq(responses, pos + 1, Len(responses))

\* mutant of AddValidationResponses: the invalid emails are left out
AddValidationResponsesOmitted(responses, errs) == responses

RECURSIVE AddValidationResponses(_, _)
AddValidationResponses(responses, errs) ==
  IF errs = <<>> THEN responses
  ELSE AddValidationResponses(
         Splice(responses, Head(errs).index,
                EmailResponse("validation_failed", Head(errs).index,
                              Some(Head(errs).error), FALSE)),
         Tail(errs))

\* insertion of r into a list sorted by index, after the entries that do
\* not compare greater (as the stable Array.prototype.sort places it)
RECURSIVE InsertByIndex(_, _)
InsertByIndex(sorted, r) ==
  IF sorted = <<>> THEN <<r>>
  ELSE IF Head(sorted).index - r.index <= 0
    THEN <<Head(sorted)>> \o InsertByIndex(Tail(sorted), r)
    ELSE <<r>> \o sorted

RECURSIVE InsertByIndexDescending(_, _)
InsertByIndexDescending(sorted, r) ==
  IF sorted = <<>> THEN <<r>>
  ELSE IF r.index - Head(sorted).index <= 0
    THEN <<Head(sorted)>> \o InsertByIndexDescending(Tail(sorted), r)
    ELSE <<r>> \o sorted

\* mutant of SortByIndex: the comparator is (a, b) => b.index - a.index
RECURSIVE SortByIndexDescending(_)
SortByIndexDescending(responses) ==
  IF responses = <<>> THEN <<>>
  ELSE InsertByIndexDescending(
         SortByIndexDescending(SubSeq(responses, 1, Len(responses) - 1)),
         responses[Len(responses)])

\* responses.sort((a, b) => a.index - b.index)
RECURSIVE SortByIndex(_)
SortByIndex(responses) ==
  IF responses = <<>> THEN <<>>
  ELSE InsertByIndex(SortByIndex(SubSeq(responses, 1, Len(responses) - 1)),
                     responses[Len(responses)])

\* mutant of FailedResponses: the error is reported on the first valid email
\* only, the others are left as accepted
FailedResponsesFirstOnly(validEmailData, error) ==
  [i \in 1..Len(validEmailData) |->
     IF i = 1
       THEN EmailResponse("failed", validEmailData[i].originalIndex,
                          Some(error.message), FALSE)
       ELSE EmailResponse("accepted", validEmailData[i].originalIndex, None, TRUE)]

\* mutant of FailedResponses: the failed responses carry no error message
FailedResponsesWithoutError(validEmailData, error) ==
  [i \in 1..Len(validEmailData) |->
     EmailResponse("failed", validEmailData[i].originalIndex, None, FALSE)]

\* the catch block of sendEmails: one failed response per valid email
FailedResponses(validEmailData, error) ==
  [i \in 1..Len(validEmailData) |->
     EmailResponse("failed", validEmailData[i].originalIndex, Some(error.message), FALSE)]

\* sendEmails from the end of makeRequest on: `request` is the outcome of
\* makeRequest; the list returned to the caller
CompleteSend(request, validEmailData, validationErrors) ==
  LET processed == IF request.thrown THEN request
                   ELSE processEmailsResponse(Get(request.value), validEmailData)
      responses == IF processed.thrown
                     THEN FailedResponses(validEmailData, Get(processed.error))
                     ELSE Get(processed.value)
  IN SortByIndex(AddValidationResponses(responses, validationErrors))

\* makeRequest after the retry loop: "Process the final error"
FinalError(lastError, maxRetries) ==
  IF isAxiosError(lastError) /\ lastError.code = "ECONNABORTED"
    THEN Thrown(LanefulError("Request timed out"))
  ELSE IF isAxiosError(lastError) /\ lastError.code \in {"ECONNREFUSED", "ENOTFOUND"}
    THEN Thrown(LanefulError("Failed to connect to Laneful API"))
  ELSE IF isAxiosError(lastError) /\ IsSome(lastError.response)
    THEN processResponse(Get(lastError.response))
  ELSE IF IsLanefulError(lastError)
    THEN Thrown(lastError)
  ELSE Thrown(LanefulError("Request failed after " \o ToString(maxRetries + 1)
                             \o " attempts: " \o ErrorToString(lastError)))

(***************************************************************************)
(* webhooks/WebhookHandler: verifySignature.                               *)
(*                                                                         *)
(* A string is a sequence of characters here: one-character strings for    *)
(* the signature header, code points for the payload and the secret (they  *)
(* are encoded to bytes).  A Buffer is a sequence of bytes (0..255).       *)
(***************************************************************************)
\* Buffer.from(string, 'utf8') for code points of the basic plane
RECURSIVE Utf8(_)
Utf8(codePoints) ==
  IF codePoints = <<>> THEN <<>>
  ELSE LET cp == Head(codePoints)
       IN (IF cp < 128 THEN <<cp>>
           ELSE IF cp < 2048 THEN <<192 + (cp \div 64), 128 + (cp % 64)>>
           ELSE <<224 + (cp \div 4096), 128 + ((cp \div 64) % 64), 128 + (cp % 64)>>)
            \o Utf8(Tail(codePoints))

\* the bytes of a digest: 32 for sha256
DigestBytes == 32

\* crypto.createHmac is not part of the repository.  It is represented by a
\* keyed digest of the same shape: a deterministic function of the key bytes
\* and the message bytes that yields DigestBytes bytes.  The state is mixed
\* byte by byte (key, separator, message) and then stretched.
RECURSIVE Absorb(_, _)
Absorb(h, bytes) ==
  IF bytes = <<>> THEN h
  ELSE Absorb(((h * 257) + Head(bytes) + 1) % 65536, Tail(bytes))

RECURSIVE Squeeze(_, _)
Squeeze(h, n) ==
  IF n = 0 THEN <<>>
  ELSE LET h1 == ((h * 25173) + 13849) % 65536
       IN <<h1 \div 256>> \o Squeeze(h1, n - 1)

\* createHmac('sha256', key).update(message).digest()
Hmac(key, message) ==
  Squeeze(Absorb(Absorb(Absorb(0, key), <<256>>), message), DigestBytes)

HexDigits == <<"0","1","2","3","4","5","6","7","8","9","a","b","c","d","e","f">>

UpperHexDigits == <<"0","1","2","3","4","5","6","7","8","9","A","B","C","D","E","F">>

\* .digest('hex'): two lowercase hex digits per byte
RECURSIVE HexEncode(_)
HexEncode(bytes) ==
  IF bytes = <<>> THEN <<>>
  ELSE <<HexDigits[(Head(bytes) \div 16) + 1], HexDigits[(Head(bytes) % 16) + 1]>>
         \o HexEncode(Tail(bytes))

\* the value of a hex digit of either case, -1 for any other character
HexValue(ch) ==
  IF \E v \in 1..16 : HexDigits[v] = ch
    THEN (CHOOSE v \in 1..16 : HexDigits[v] = ch) - 1
  ELSE IF \E v \in 1..16 : UpperHexDigits[v] = ch
    THEN (CHOOSE v \in 1..16 : UpperHexDigits[v] = ch) - 1
  ELSE -1

\* Buffer.from(string, 'hex'): one byte per pair of hex digits; decoding
\* stops at the first pair that is not two hex digits, and a last unpaired
\* character is ignored
RECURSIVE BufferFromHex(_)
BufferFromHex(chars) ==
  IF Len(chars) < 2 THEN <<>>
  ELSE IF HexValue(chars[1]) < 0 \/ HexValue(chars[2]) < 0 THEN <<>>
  ELSE <<(HexValue(chars[1]) * 16) + HexValue(chars[2])>>
         \o BufferFromHex(SubSeq(chars, 3, Len(chars)))

RangeError(m) == Err("RangeError", m)

\* crypto.timingSafeEqual(a, b): throws when the byte lengths differ
timingSafeEqual(a, b) ==
  IF Len(a) # Len(b)
    THEN Thrown(RangeError("Input buffers must have the same byte length"))
    ELSE Returned(a = b)

Sha256Prefix == <<"s","h","a","2","5","6","=">>

\* string.startsWith(prefix)
StartsWith(chars, prefix) ==
  Len(chars) >= Len(prefix) /\ SubSeq(chars, 1, Len(prefix)) = prefix

\* a payload argument: a string or a Buffer
StringPayload(codePoints) == [kind |-> "string", data |-> codePoints]

BufferPayload(bytes) == [kind |-> "buffer", data |-> bytes]

\* Buffer.isBuffer(payload) ? payload : Buffer.from(payload, 'utf8')
PayloadBuffer(payload) ==
  IF payload.kind = "buffer" THEN payload.data ELSE Utf8(payload.data)

\* mutant of verifySignature: a handler without a secret verifies with an
\* empty key
verifySignatureWithoutSkip(webhookSecret, payload, signature) ==
  LET key == IF IsSome(webhookSecret) THEN Get(webhookSecret) ELSE <<>>
      signatureToVerify ==
        IF StartsWith(signature, Sha256Prefix)
          THEN SubSeq(signature, Len(Sha256Prefix) + 1, Len(signature))
          ELSE signature
      expectedSignature == HexEncode(Hmac(Utf8(key), PayloadBuffer(payload)))
  IN IF Len(signatureToVerify) # Len(expectedSignature)
       THEN Returned(FALSE)
       ELSE timingSafeEqual(BufferFromHex(signatureToVerify),
                            BufferFromHex(expectedSignature))

\* mutant of verifySignature: the 'sha256=' prefix is not removed
verifySignatureKeepingPrefix(webhookSecret, payload, signature) ==
  IF ~IsSome(webhookSecret) \/ Get(webhookSecret) = <<>>
    THEN Returned(TRUE)
  ELSE LET expectedSignature ==
             HexEncode(Hmac(Utf8(Get(webhookSecret)), PayloadBuffer(payload)))
       IN IF Len(signature) # Len(expectedSignature)
            THEN Returned(FALSE)
            ELSE timingSafeEqual(BufferFromHex(signature),
                                 BufferFromHex(expectedSignature))

\* verifySignature(payload, signature) of a handler with the given secret:
\* what it returns or throws
verifySignature(webhookSecret, payload, signature) ==
  IF ~IsSome(webhookSecret) \/ Get(webhookSecret) = <<>>
    THEN Returned(TRUE)
  ELSE LET payloadBuffer == PayloadBuffer(payload)
           signatureToVerify ==
             IF StartsWith(signature, Sha256Prefix)
               THEN SubSeq(signature, Len(Sha256Prefix) + 1, Len(signature))
               ELSE signature
           expectedSignature ==
             HexEncode(Hmac(Utf8(Get(webhookSecret)), payloadBuffer))
       IN IF Len(signatureToVerify) # Len(expectedSignature)
            THEN Returned(FALSE)
            ELSE timingSafeEqual(BufferFromHex(signatureToVerify),
                                 BufferFromHex(expectedSignature))

(***************************************************************************)
(* webhooks/WebhookTypes.ts: the events. An untyped payload object         *)
(* (Record<string, unknown>) is a function from the names of the members   *)
(* it has to their values; reading a member gives Some(value), or None     *)
(* for undefined. A field of an event is Some(value), or None when it      *)
(* holds undefined.                                                        *)
(***************************************************************************)
\* enum WebhookEventType
WebhookEventType ==
  [DELIVERY |-> "delivery", OPEN |-> "open", CLICK |-> "click", DROP |-> "drop",
   SPAM_COMPLAINT |-> "spam_complaint", UNSUBSCRIBE |-> "unsubscribe",
   BOUNCE |-> "bounce"]

\* data.name
Member(data, name) == IF name \in DOMAIN data THEN Some(data[name]) ELSE None

\* x ?? d
OrDefault(x, d) == IF IsSome(x) THEN x ELSE Some(d)

\* {}
EmptyObject == [name \in {} |-> ""]

\* const baseEvent: BaseWebhookEvent = {...}
BaseWebhookEvent(data) ==
  [email      |-> OrDefault(Member(data, "email"), ""),
   event      |-> OrDefault(Member(data, "event"), ""),
   lane_id    |-> OrDefault(Member(data, "lane_id"), ""),
   message_id |-> OrDefault(Member(data, "message_id"), ""),
   metadata   |-> OrDefault(Member(data, "metadata"), EmptyObject),
   tag        |-> OrDefault(Member(data, "tag"), ""),
   timestamp  |-> OrDefault(Member(data, "timestamp"), 0)]

\* mutant of createWebhookEvent: the url of a click event is copied as it is
createWebhookEventCopyingUrl(data) ==
  LET baseEvent == BaseWebhookEvent(data)
      kind == Get(baseEvent.event)
  IN CASE kind = WebhookEventType.DELIVERY -> baseEvent
       [] kind = WebhookEventType.OPEN ->
            [referer       |-> Member(data, "referer"),
             client_name   |-> Member(data, "client_name"),
             client_os     |-> Member(data, "client_os"),
             client_ip     |-> Member(data, "client_ip"),
             client_device |-> Member(data, "client_device")] @@ baseEvent
       [] kind = WebhookEventType.CLICK ->
            [url           |-> Member(data, "url"),
             referer       |-> Member(data, "referer"),
             client_name   |-> Member(data, "client_name"),
             client_os     |-> Member(data, "client_os"),
             client_ip     |-> Member(data, "client_ip"),
             client_device |-> Member(data, "client_device")] @@ baseEvent
       [] kind = WebhookEventType.DROP ->
            [reason |-> OrDefault(Member(data, "reason"), "")] @@ baseEvent
       [] kind = WebhookEventType.SPAM_COMPLAINT ->
            [feedback_type           |-> OrDefault(Member(data, "feedback_type"), 0),
             feedback_type_text      |-> OrDefault(Member(data, "feedback_type_text"), ""),
             received_unix_timestamp |->
               OrDefault(Member(data, "received_unix_timestamp"), 0)] @@ baseEvent
       [] kind = WebhookEventType.UNSUBSCRIBE ->
            [unsubscribe_group_id |-> Member(data, "unsubscribe_group_id")] @@ baseEvent
       [] kind = WebhookEventType.BOUNCE ->
            [code                 |-> OrDefault(Member(data, "code"), ""),
             extended_code        |-> Member(data, "extended_code"),
             text                 |-> OrDefault(Member(data, "text"), ""),
             is_hard              |-> OrDefault(Member(data, "is_hard"), FALSE),
             deliverability_issue |-> Member(data, "deliverability_issue")] @@ baseEvent
       [] OTHER -> baseEvent

\* createWebhookEvent(data): the base fields, and the fields of the variant
\* the discriminator names
createWebhookEvent(data) ==
  LET baseEvent == BaseWebhookEvent(data)
      kind == Get(baseEvent.event)
  IN CASE kind = WebhookEventType.DELIVERY -> baseEvent
       [] kind = WebhookEventType.OPEN ->
            [referer       |-> Member(data, "referer"),
             client_name   |-> Member(data, "client_name"),
             client_os     |-> Member(data, "client_os"),
             client_ip     |-> Member(data, "client_ip"),
             client_device |-> Member(data, "client_device")] @@ baseEvent
       [] kind = WebhookEventType.CLICK ->
            [url           |-> OrDefault(Member(data, "url"), ""),
             referer       |-> Member(data, "referer"),
             client_name   |-> Member(data, "client_name"),
             client_os     |-> Member(data, "client_os"),
             client_ip     |-> Member(data, "client_ip"),
             client_device |-> Member(data, "client_device")] @@ baseEvent
       [] kind = WebhookEventType.DROP ->
            [reason |-> OrDefault(Member(data, "reason"), "")] @@ baseEvent
       [] kind = WebhookEventType.SPAM_COMPLAINT ->
            [feedback_type           |-> OrDefault(Member(data, "feedback_type"), 0),
             feedback_type_text      |-> OrDefault(Member(data, "feedback_type_text"), ""),
             received_unix_timestamp |->
               OrDefault(Member(data, "received_unix_timestamp"), 0)] @@ baseEvent
       [] kind = WebhookEventType.UNSUBSCRIBE ->
            [unsubscribe_group_id |-> Member(data, "unsubscribe_group_id")] @@ baseEvent
       [] kind = WebhookEventType.BOUNCE ->
            [code                 |-> OrDefault(Member(data, "code"), ""),
             extended_code        |-> Member(data, "extended_code"),
             text                 |-> OrDefault(Member(data, "text"), ""),
             is_hard              |-> OrDefault(Member(data, "is_hard"), FALSE),
             deliverability_issue |-> Member(data, "deliverability_issue")] @@ baseEvent
       [] OTHER -> baseEvent

(***************************************************************************)
(* webhooks/WebhookHandler: the registry. this.handlers is a Map, which    *)
(* keeps its entries in insertion order: a sequence of entries with        *)
(* pairwise different keys.                                                *)
(***************************************************************************)
\* map.has(key)
MapHas(map, key) == \E i \in DOMAIN map : map[i].key = key

\* map.get(key): None for undefined
MapGet(map, key) ==
  IF MapHas(map, key)
    THEN LET first == CHOOSE i \in DOMAIN map :
                        /\ map[i].key = key
                        /\ \A j \in 1..(i - 1) : map[j].key # key
         IN Some(map[first].value)
    ELSE None

\* map.set(key, value): the entry of an existing key keeps its place
MapSet(map, key, value) ==
  IF MapHas(map, key)
    THEN [i \in DOMAIN map |->
            IF map[i].key = key THEN [key |-> key, value |-> value] ELSE map[i]]
    ELSE Append(map, [key |-> key, value |-> value])

\* map.delete(key)
MapDelete(map, key) ==
  LET Other(entry) == entry.key # key IN SelectSeq(map, Other)

\* Array.from(map.keys())
MapKeys(map) == [i \in DOMAIN map |-> map[i].key]

\* mutant of registerHandler: a kind that has a handler keeps it
registerHandlerKeepingFirst(handlers, eventType, handler) ==
  IF MapHas(handlers, eventType) THEN handlers
                                 ELSE MapSet(handlers, eventType, handler)

\* registerHandler(eventType, handler): this.handlers afterwards
registerHandler(handlers, eventType, handler) == MapSet(handlers, eventType, handler)

\* on(eventType)(handler): this.handlers afterwards
on(handlers, eventType, handler) == MapSet(handlers, eventType, handler)

\* removeHandler(eventType): this.handlers afterwards
removeHandler(handlers, eventType) == MapDelete(handlers, eventType)

\* getRegisteredEventTypes()
getRegisteredEventTypes(handlers) == MapKeys(handlers)

(***************************************************************************)
(* webhooks/WebhookHandler: processWebhook. A parsed JSON value is an      *)
(* object, null or an array; a JSON text is a string.                      *)
(***************************************************************************)
JsonObject(data) == [type |-> "object", data |-> data]

JsonNull == [type |-> "null"]

JsonArray(items) == [type |-> "array", items |-> items]

JsonText(text) == [type |-> "string", text |-> text]

\* the members of the payload objects the dispatch is followed on, in the
\* order the sender writes them
MemberOrder == <<"email", "event">>

\* "name":"value" for the members of data among names, separated by commas
RECURSIVE MembersText(_, _)
MembersText(data, names) ==
  IF names = <<>> THEN ""
  ELSE LET rest == MembersText(data, Tail(names))
           name == Head(names)
       IN IF name \notin DOMAIN data THEN rest
          ELSE "\"" \o name \o "\":\"" \o data[name] \o "\""
                 \o (IF rest = "" THEN "" ELSE "," \o rest)

RECURSIVE ItemsText(_)
\* JSON.stringify(value), for values whose members are strings
Stringify(value) ==
  CASE value.type = "null"   -> "null"
    [] value.type = "object" -> "{" \o MembersText(value.data, MemberOrder) \o "}"
    [] value.type = "array"  -> "[" \o ItemsText(value.items) \o "]"

ItemsText(items) ==
  IF items = <<>> THEN ""
  ELSE Stringify(Head(items))
         \o (IF Len(items) = 1 THEN "" ELSE "," \o ItemsText(Tail(items)))

\* the payload objects: a delivery event, an open event, an object without
\* discriminator and one whose discriminator is the empty string
DeliveryData == [email |-> "user@example.com", event |-> WebhookEventType.DELIVERY]

OpenData == [email |-> "user@example.com", event |-> WebhookEventType.OPEN]

NoEventData == [email |-> "user@example.com"]

EmptyEventData == [email |-> "user@example.com", event |-> ""]

ObjectElements ==
  {JsonObject(DeliveryData), JsonObject(OpenData), JsonObject(NoEventData),
   JsonObject(EmptyEventData)}

\* the values a JSON text of the sender can hold
JsonElements == ObjectElements \cup {JsonNull}

JsonValues == JsonElements \cup {JsonArray(items) : items \in SeqsUpTo(JsonElements, MaxBatch)}

\* texts JSON.parse refuses, with the message of the SyntaxError
InvalidJsonTexts == {"invalid-json", "{\"event\":"}

SyntaxError(text) ==
  Err("SyntaxError",
      IF text = "{\"event\":"
        THEN "Unexpected end of JSON input"
        ELSE "Unexpected token 'i', \"invalid-json\" is not valid JSON")

\* the value of each valid text, evaluated once
ParsedTexts ==
  LET texts == {Stringify(v) : v \in JsonValues}
  IN [text \in texts |-> CHOOSE v \in JsonValues : Stringify(v) = text]

\* JSON.parse(text)
JSONParse(text) ==
  IF text \in DOMAIN ParsedTexts THEN Returned(ParsedTexts[text])
                                 ELSE Thrown(SyntaxError(text))

\* promises
Fulfilled == [state |-> "fulfilled", error |-> None]

Rejected(e) == [state |-> "rejected", error |-> Some(e)]

Pending == [state |-> "pending", error |-> None]

\* what a handler does when it is called: it returns (or its promise is
\* fulfilled at once), it throws, or it returns a promise that settles later
HandlerModes == {"returns", "throws", "pending"}

HandlerError == Err("Error", "handler failed")

\* await handler(event)
AwaitHandler(mode) ==
  CASE mode = "returns" -> Fulfilled
    [] mode = "throws"  -> Rejected(HandlerError)
    [] mode = "pending" -> Pending

MissingEventError == Err("Error", "Webhook payload missing required field: event")

\* data.email on null
NullTypeError == Err("TypeError", "Cannot read properties of null (reading 'email')")

\* mutant of processSingleEvent: an element without discriminator is skipped
processSingleEventSkippingMissing(handlers, eventData, mode) ==
  IF eventData.type = "null"
    THEN [eventData |-> eventData, promise |-> Rejected(NullTypeError), calls |-> <<>>]
    ELSE LET event == createWebhookEvent(eventData.data)
             handler == MapGet(handlers, Get(event.event))
         IN IF IsSome(handler)
              THEN [eventData |-> eventData, promise |-> AwaitHandler(mode),
                    calls |-> <<[handler |-> Get(handler), event |-> event]>>]
              ELSE [eventData |-> eventData, promise |-> Fulfilled, calls |-> <<>>]

\* mutant of processSingleEvent: a kind without handler is an error
processSingleEventRequiringHandler(handlers, eventData, mode) ==
  IF eventData.type = "null"
    THEN [eventData |-> eventData, promise |-> Rejected(NullTypeError), calls |-> <<>>]
    ELSE LET event == createWebhookEvent(eventData.data)
             handler == MapGet(handlers, Get(event.event))
         IN IF Get(event.event) = ""
              THEN [eventData |-> eventData, promise |-> Rejected(MissingEventError),
                    calls |-> <<>>]
              ELSE IF IsSome(handler)
                THEN [eventData |-> eventData, promise |-> AwaitHandler(mode),
                      calls |-> <<[handler |-> Get(handler), event |-> event]>>]
                ELSE [eventData |-> eventData,
                      promise |-> Rejected(Err("Error", "No handler registered")),
                      calls |-> <<>>]

\* processSingleEvent(eventData), up to its first suspension: the promise it
\* returns and the handler calls it made. mode is what the handler does.
processSingleEvent(handlers, eventData, mode) ==
  IF eventData.type = "null"
    THEN [eventData |-> eventData, promise |-> Rejected(NullTypeError), calls |-> <<>>]
    ELSE LET event == createWebhookEvent(eventData.data)
             handler == MapGet(handlers, Get(event.event))
         IN IF Get(event.event) = ""
              THEN [eventData |-> eventData, promise |-> Rejected(MissingEventError),
                    calls |-> <<>>]
              ELSE IF IsSome(handler)
                THEN [eventData |-> eventData, promise |-> AwaitHandler(mode),
                      calls |-> <<[handler |-> Get(handler), event |-> event]>>]
                ELSE [eventData |-> eventData, promise |-> Fulfilled, calls |-> <<>>]

\* the element of lowest index whose promise is rejected, 0 when there is none
FirstRejected(elements) ==
  LET rejected == {i \in DOMAIN elements : elements[i].promise.state = "rejected"}
  IN IF rejected = {} THEN 0
     ELSE CHOOSE i \in rejected : \A j \in rejected : i <= j

\* mutant of PromiseAll: the promise waits for every element and is
\* fulfilled whatever became of them
PromiseAllSettled(elements) ==
  IF \E i \in DOMAIN elements : elements[i].promise.state = "pending"
    THEN Pending
    ELSE Fulfilled

\* Promise.all(promises), when the promises rejected so far were rejected
\* together: the rejection subscribed first wins
PromiseAll(elements) ==
  IF FirstRejected(elements) # 0
    THEN Rejected(Get(elements[FirstRejected(elements)].promise.error))
    ELSE IF \A i \in DOMAIN elements : elements[i].promise.state = "fulfilled"
      THEN Fulfilled
      ELSE Pending

\* mutant of processBatchEvents: the elements are processed one after the
\* other, and those after a failed one are not processed
processBatchEventsStoppingAtFailure(handlers, events, modes) ==
  LET all == [i \in DOMAIN events |-> processSingleEvent(handlers, events[i], modes[i])]
  IN [i \in DOMAIN events |->
        IF \E j \in 1..(i - 1) : all[j].promise.state = "rejected"
          THEN [eventData |-> events[i], promise |-> Pending, calls |-> <<>>]
          ELSE all[i]]

\* mutant of processBatchEvents: an element equal to an earlier one is taken
\* for a repeated delivery and skipped
processBatchEventsSkippingRepeats(handlers, events, modes) ==
  [i \in DOMAIN events |->
     IF \E j \in 1..(i - 1) : events[j] = events[i]
       THEN [eventData |-> events[i], promise |-> Fulfilled, calls |-> <<>>]
       ELSE processSingleEvent(handlers, events[i], modes[i])]

\* processBatchEvents(events), up to its await: events.map runs
\* processSingleEvent on every element, in order
processBatchEvents(handlers, events, modes) ==
  [i \in DOMAIN events |-> processSingleEvent(handlers, events[i], modes[i])]

\* mutant of processWebhook: the error of JSON.parse is thrown as it is
processWebhookRethrowing(handlers, payload, modes) ==
  LET parsed == IF payload.type = "string" THEN JSONParse(payload.text)
                                           ELSE Returned(payload)
  IN IF parsed.thrown
       THEN [elements |-> <<>>, promise |-> Rejected(Get(parsed.error))]
       ELSE LET data == Get(parsed.value)
            IN IF data.type = "array"
                 THEN LET elements == processBatchEvents(handlers, data.items, modes)
                      IN [elements |-> elements, promise |-> PromiseAll(elements)]
                 ELSE LET element == processSingleEvent(handlers, data, modes[1])
                      IN [elements |-> <<element>>, promise |-> element.promise]

\* processWebhook(payload), up to its first suspension: the elements it
\* processed and the promise it returned
processWebhook(handlers, payload, modes) ==
  LET parsed == IF payload.type = "string" THEN JSONParse(payload.text)
                                           ELSE Returned(payload)
  IN IF parsed.thrown
       THEN [elements |-> <<>>,
             promise |-> Rejected(Err("Error", "Invalid JSON payload: "
                                        \o ErrorToString(Get(parsed.error))))]
       ELSE LET data == Get(parsed.value)
            IN IF data.type = "array"
                 THEN LET elements == processBatchEvents(handlers, data.items, modes)
                      IN [elements |-> elements, promise |-> PromiseAll(elements)]
                 ELSE LET element == processSingleEvent(handlers, data, modes[1])
                      IN [elements |-> <<element>>, promise |-> element.promise]

(***************************************************************************)
(* State.                                                                  *)
(***************************************************************************)
\* the sendEmails calls the model follows; "c1" alone is a caller that
\* awaits each call before the next
Calls == {"c1", "c2"}

SequentialCalls == {"c1"}

VARIABLES
  retryOptions,      \* this.retryOptions
  rateLimitOptions,  \* this.rateLimitOptions, None when not configured
  requestCount,      \* this.requestCount
  windowStart,       \* this.windowStart
  now,               \* the value Date.now() returns
  call,              \* the frame of each sendEmails call and what it settled to
  webhook,           \* the WebhookHandler and its last verifySignature call
  dispatch,          \* the processWebhook call in progress and its promises
  latest,            \* history: per kind, the registrations since the last removal
  created            \* the last createWebhookEvent call: its argument and its result

vars == <<retryOptions, rateLimitOptions, requestCount, windowStart, now, call, webhook,
          dispatch, latest, created>>

clientVars == <<retryOptions, rateLimitOptions, requestCount, windowStart, now, call>>

\* the model's clock advances in steps of one second
TickMs == MsPerSecond

\* options.retry as callers configure it: some values of maxRetries, the
\* other fields left to their defaults
RetryOptionChoices ==
  {[maxRetries |-> Some(m), baseDelay |-> None, maxDelay |-> None,
    backoffMultiplier |-> None, jitterNum |-> None] : m \in {0, 1, 2}}

\* options.rateLimit as callers configure it
RateLimitChoices ==
  {None} \cup {Some([maxRequests |-> n, windowMs |-> 2 * TickMs]) : n \in {0, 1, 2}}

\* new WebhookHandler(webhookSecret), before any call of verifySignature
NewWebhookHandler(webhookSecret) ==
  [webhookSecret |-> webhookSecret, handlers |-> <<>>,
   pc |-> "ready", verified |-> None,
   \* history: the arguments of the last verifySignature call
   payload |-> None, signature |-> None]

\* the handler functions the application registers
HandlerPool == {"h1", "h2"}

\* the kinds the application registers handlers for
RegisteredKinds == {WebhookEventType.DELIVERY, WebhookEventType.OPEN}

\* no processWebhook call in progress
IdleDispatch == [pc |-> "idle", payload |-> None, elements |-> <<>>, promise |-> Pending]

\* history of one kind: no handler registered
NoRegistration == [handler |-> None, replaced |-> FALSE]

\* history of one kind after handler is registered for it: replaced tells
\* that a different handler was registered before and not removed
Registration(before, handler) ==
  [handler |-> Some(handler),
   replaced |-> before.replaced \/ (IsSome(before.handler) /\ before.handler # Some(handler))]

IdleCall ==
  [pc |-> "idle", emails |-> <<>>, validationErrors |-> <<>>, validEmailData |-> <<>>,
   attempt |-> 0, lastError |-> None, sleepMs |-> 0,
   result |-> <<>>, thrown |-> None,
   \* the method the caller invoked and, for sendEmail, the value its promise
   \* resolved to
   api |-> "sendEmails", value |-> None,
   \* history, not read by the client
   httpCalls |-> 0, sent |-> {}, lastResponse |-> None, retryableFailures |-> 0,
   refused |-> FALSE]

Init ==
  /\ \E retry \in RetryOptionChoices : retryOptions = RetryDefaults(retry)
  /\ rateLimitOptions \in RateLimitChoices
  /\ requestCount = 0
  /\ now = 0
  /\ windowStart = now
  /\ call = [c \in Calls |-> IdleCall]
  /\ webhook = NewWebhookHandler(None)
  /\ dispatch = IdleDispatch
  /\ latest = [kind \in RegisteredKinds |-> NoRegistration]
  /\ created = None

\* mutant of IssueRequest: the body carries the first valid email only
IssueRequestFirstOnly(frame) ==
  [frame EXCEPT !.pc = "inflight",
                !.httpCalls = @ + 1,
                !.sent = @ \cup {[emails |-> <<frame.validEmailData[1].data>>]}]

\* this.httpClient.request({ method, url, data }) is issued
IssueRequest(frame) ==
  [frame EXCEPT !.pc = "inflight",
                !.httpCalls = @ + 1,
                !.sent = @ \cup {[emails |-> [i \in 1..Len(frame.validEmailData) |->
                                               frame.validEmailData[i].data]]}]

\* mutant of Resolve: the error of makeRequest is not caught
ResolveRethrowing(frame, request) ==
  IF request.thrown
    THEN [frame EXCEPT !.pc = "rejected", !.thrown = request.error]
    ELSE [frame EXCEPT !.pc = "resolved",
                       !.result = CompleteSend(request, frame.validEmailData,
                                               frame.validationErrors)]

\* mutant of ThenFirst: the callback does not return the element
ThenFirstDropped(responses) == None

\* sendEmail: .then((responses) => responses[0]!), undefined for an empty list
ThenFirst(responses) == IF Len(responses) >= 1 THEN Some(responses[1]) ELSE None

\* sendEmails resolves with the reconciled list; sendEmail passes it through
\* its then-callback
Resolve(frame, request) ==
  LET responses == CompleteSend(request, frame.validEmailData, frame.validationErrors)
  IN [frame EXCEPT !.pc = "resolved",
                   !.result = responses,
                   !.value = IF frame.api = "sendEmail" THEN ThenFirst(responses) ELSE None]

Reject(frame, error) == [frame EXCEPT !.pc = "rejected", !.thrown = Some(error)]

(***************************************************************************)
(* sendEmails(emails), up to its first suspension: the list check, the     *)
(* validation loop, and makeRequest up to the first HTTP request.          *)
(***************************************************************************)
StartSend(c, emails, api) ==
  /\ call[c].pc = "idle"
  /\ LET errs == ValidationErrors(emails, 1)
         valid == ValidEmailData(emails, 1)
         frame == [call[c] EXCEPT !.emails = emails, !.validationErrors = errs,
                                  !.validEmailData = valid, !.api = api]
         limit == checkRateLimit(rateLimitOptions, requestCount, windowStart, now)
     IN IF IsSome(validateEmailsList(emails))
          THEN /\ call' = [call EXCEPT ![c] =
                             Reject([call[c] EXCEPT !.emails = emails, !.api = api],
                                    Get(validateEmailsList(emails)))]
               /\ UNCHANGED <<requestCount, windowStart>>
        ELSE IF AllFailedValidation(valid)
          THEN /\ call' = [call EXCEPT ![c] =
                             Reject(frame, LanefulValidationError(
                                      "All emails failed validation: " \o JoinErrors(errs)))]
               /\ UNCHANGED <<requestCount, windowStart>>
        ELSE /\ requestCount' = limit.requestCount
             /\ windowStart' = limit.windowStart
             /\ call' = [call EXCEPT ![c] =
                           IF IsSome(limit.error)
                             THEN Resolve([frame EXCEPT !.refused = TRUE],
                                          Thrown(Get(limit.error)))
                             ELSE IssueRequest(frame)]
  /\ UNCHANGED <<webhook, dispatch, latest, created, retryOptions, rateLimitOptions, now>>

SendEmails(c, emails) == StartSend(c, emails, "sendEmails")

\* sendEmail(email): this.sendEmails([email]) and the then-callback on its
\* promise
SendEmail(c, email) == StartSend(c, <<email>>, "sendEmail")

\* mutant of WillRetry: every error is followed by another attempt while
\* attempts remain
WillRetryAnyError(frame, error) == ~(frame.attempt = retryOptions.maxRetries)

\* mutant of WillRetry: the loop stops one attempt early
WillRetryOneLess(frame, error) ==
  ~(frame.attempt + 1 >= retryOptions.maxRetries \/ ~isRetryableError(error))

\* the catch block of the retry loop goes on to another attempt unless this
\* was the last attempt or the error is not retryable
WillRetry(frame, error) ==
  ~(frame.attempt = retryOptions.maxRetries \/ ~isRetryableError(error))

\* the values Math.random() may return in the catch block, as numerators
\* over RandDen; it is called only when the loop goes on
RandomDraws(frame, error) ==
  IF WillRetry(frame, error) THEN 0..(RandDen - 1) ELSE {0}

\* mutant of CatchAttempt: after the last attempt the loop is left without
\* settling the promise
CatchAttemptNeverSettling(current, error, k) ==
  LET frame == [current EXCEPT !.lastError = Some(error)]
  IN IF WillRetry(frame, error)
       THEN [frame EXCEPT !.pc = "sleeping",
                          !.sleepMs = calculateRetryDelay(retryOptions, frame.attempt, k)]
       ELSE [frame EXCEPT !.pc = "suspended"]

\* the catch block of the retry loop for the error of the current attempt:
\* stop on the last attempt or on a non-retryable error, otherwise sleep
CatchAttempt(current, error, k) ==
  LET frame == [current EXCEPT !.lastError = Some(error)]
  IN IF WillRetry(frame, error)
       THEN [frame EXCEPT !.pc = "sleeping",
                          !.sleepMs = calculateRetryDelay(retryOptions, frame.attempt, k)]
       ELSE Resolve(frame, FinalError(error, retryOptions.maxRetries))

(***************************************************************************)
(* The request in flight resolves with a response.                         *)
(***************************************************************************)
HttpResponse(c, response) ==
  /\ call[c].pc = "inflight"
  /\ LET processed == processResponse(response)
         frame == [call[c] EXCEPT !.lastResponse = Some(response)]
     IN IF processed.thrown
          THEN \E k \in RandomDraws(frame, Get(processed.error)) :
                 call' = [call EXCEPT ![c] = CatchAttempt(frame, Get(processed.error), k)]
          ELSE call' = [call EXCEPT ![c] = Resolve(frame, processed)]
  /\ UNCHANGED <<webhook, dispatch, latest, created, retryOptions, rateLimitOptions, requestCount, windowStart, now>>

(***************************************************************************)
(* The request in flight rejects with a transport error.                   *)
(***************************************************************************)
HttpError(c, code) ==
  /\ call[c].pc = "inflight"
  /\ LET frame == [call[c] EXCEPT !.retryableFailures =
                                    IF code \in RetryableCodes THEN @ + 1 ELSE @]
     IN \E k \in RandomDraws(frame, AxiosError(code)) :
          call' = [call EXCEPT ![c] = CatchAttempt(frame, AxiosError(code), k)]
  /\ UNCHANGED <<webhook, dispatch, latest, created, retryOptions, rateLimitOptions, requestCount, windowStart, now>>

(***************************************************************************)
(* The backoff timer fires: the loop goes to the next attempt.             *)
(***************************************************************************)
SleepDone(c) ==
  /\ call[c].pc = "sleeping"
  /\ call' = [call EXCEPT ![c] =
                IssueRequest([call[c] EXCEPT !.attempt = @ + 1, !.sleepMs = 0])]
  /\ UNCHANGED <<webhook, dispatch, latest, created, retryOptions, rateLimitOptions, requestCount, windowStart, now>>

(***************************************************************************)
(* The caller has received the settled promise; a new call may start.      *)
(***************************************************************************)
Settled(c) ==
  /\ call[c].pc \in {"resolved", "rejected"}
  /\ call' = [call EXCEPT ![c] = IdleCall]
  /\ UNCHANGED <<webhook, dispatch, latest, created, retryOptions, rateLimitOptions, requestCount, windowStart, now>>

(***************************************************************************)
(* Time passes.                                                            *)
(***************************************************************************)
Tick ==
  /\ now < MaxTicks * TickMs
  /\ now' = now + TickMs
  /\ UNCHANGED <<webhook, dispatch, latest, created, retryOptions, rateLimitOptions, requestCount, windowStart, call>>

Next ==
  \/ \E c \in SequentialCalls, emails \in EmailLists : SendEmails(c, emails)
  \/ \E c \in SequentialCalls, email \in EmailPool : SendEmail(c, email)
  \/ \E c \in SequentialCalls, response \in Responses : HttpResponse(c, response)
  \/ \E c \in SequentialCalls, code \in TransportCodes : HttpError(c, code)
  \/ \E c \in SequentialCalls : SleepDone(c)
  \/ \E c \in SequentialCalls : Settled(c)
  \/ Tick

Spec == Init /\ [][Next]_vars

(***************************************************************************)
(* The retry loop on its own: one caller, lists with a valid email, every  *)
(* answer and every transport error, and retry options whose maxDelay      *)
(* caps the second delay. Every request in flight eventually returns or    *)
(* fails, and every backoff timer eventually fires.                        *)
(***************************************************************************)
RetryLists == {<<ValidEmail>>, <<ValidEmail, BadToEmail>>}

\* options.retry: maxRetries alone, and a maxDelay below baseDelay * 2
CappedRetryOptions ==
  RetryOptionChoices
    \cup {[maxRetries |-> Some(2), baseDelay |-> Some(1000), maxDelay |-> Some(1500),
           backoffMultiplier |-> None, jitterNum |-> None]}

RetryInit ==
  /\ \E retry \in CappedRetryOptions : retryOptions = RetryDefaults(retry)
  /\ rateLimitOptions = None
  /\ requestCount = 0
  /\ now = 0
  /\ windowStart = now
  /\ call = [c \in Calls |-> IdleCall]
  /\ webhook = NewWebhookHandler(None)
  /\ dispatch = IdleDispatch
  /\ latest = [kind \in RegisteredKinds |-> NoRegistration]
  /\ created = None

\* the request in flight of call c returns or fails
RequestCompletes(c) ==
  \/ \E response \in Responses : HttpResponse(c, response)
  \/ \E code \in TransportCodes : HttpError(c, code)

RetryNext ==
  \/ \E c \in SequentialCalls, emails \in RetryLists : SendEmails(c, emails)
  \/ \E c \in SequentialCalls : RequestCompletes(c)
  \/ \E c \in SequentialCalls : SleepDone(c)
  \/ \E c \in SequentialCalls : Settled(c)
  \/ Tick

RetrySpec ==
  /\ RetryInit
  /\ [][RetryNext]_vars
  /\ \A c \in SequentialCalls : WF_vars(RequestCompletes(c)) /\ WF_vars(SleepDone(c))

(***************************************************************************)
(* Two callers on one client: neither awaits the other, so the calls       *)
(* interleave at every suspension (the request in flight, the backoff      *)
(* sleep).                                                                 *)
(***************************************************************************)
\* the lists concurrent callers send: a valid email, an invalid one, none
ConcurrentLists == {<<ValidEmail>>, <<BadToEmail>>, <<>>}

\* the answers of the server to concurrent callers
ConcurrentResponses ==
  {[status |-> 200, data |-> AcceptedBody],
   [status |-> 500, data |-> ErrorBody("Invalid email")]}

ConcurrentNext ==
  \/ \E c \in Calls, emails \in ConcurrentLists : SendEmails(c, emails)
  \/ \E c \in Calls, response \in ConcurrentResponses : HttpResponse(c, response)
  \/ \E c \in Calls, code \in TransportCodes : HttpError(c, code)
  \/ \E c \in Calls : SleepDone(c)
  \/ \E c \in Calls : Settled(c)
  \/ Tick

ConcurrentSpec == Init /\ [][ConcurrentNext]_vars

(***************************************************************************)
(* The webhook handler on its own: a handler is constructed with or        *)
(* without a secret, and verifySignature is called with payloads and       *)
(* signature headers as a sender or a forger may present them.             *)
(***************************************************************************)
\* the characters of payloads and secrets, as code points: 'a', 'b', 'k'
\* and the two-byte 'e' with acute accent
PayloadCodePoints == {97, 98, 233}

PayloadBytes == {97, 98, 195, 169}

Payloads ==
  {StringPayload(cs) : cs \in SeqsUpTo(PayloadCodePoints, MaxPayloadLen)}
    \cup {BufferPayload(bs) : bs \in SeqsUpTo(PayloadBytes, MaxPayloadLen)}

\* the secrets a handler is constructed with: none, the empty string, 'k'
WebhookSecrets == {None, Some(<<>>), Some(<<107>>)}

\* the key of the party that signs payloads: the handler's secret when it
\* has one
SignerKey == IF IsSome(webhook.webhookSecret) /\ Get(webhook.webhookSecret) # <<>>
               THEN Get(webhook.webhookSecret) ELSE <<107>>

\* the hex HMAC of the raw bytes of a payload under the signer's key
SignatureOf(payload) == HexEncode(Hmac(Utf8(SignerKey), PayloadBuffer(payload)))

ReplaceAt(chars, i, ch) == [chars EXCEPT ![i] = ch]

\* the characters that may stand in place of ch: the same hex letter in the
\* other case, the next hex digit, and characters that are no hex digits
OtherChars(ch) ==
  ((IF HexValue(ch) >= 0
      THEN {HexDigits[((HexValue(ch) + 1) % 16) + 1],
            UpperHexDigits[HexValue(ch) + 1],
            HexDigits[HexValue(ch) + 1]}
      ELSE {}) \cup {"z", "S"}) \ {ch}

\* the strings that differ from chars in exactly one character, at one of
\* the given positions
OneCharOffAt(chars, positions) ==
  {ReplaceAt(chars, i, ch) : <<i, ch>> \in
     UNION {{<<j, o>> : o \in OtherChars(chars[j])} : j \in positions}}

\* the strings that differ from chars in exactly one character
OneCharOff(chars) == OneCharOffAt(chars, 1..Len(chars))

\* where the presented headers are changed: the first two characters, the
\* two after the length of the prefix, and the last one
ChangedPositions(chars) ==
  {1, 2, Len(Sha256Prefix) + 1, Len(Sha256Prefix) + 2, Len(chars)}

\* the payloads of the same kind that differ from payload in exactly one
\* byte (of a Buffer) or in one character of equal encoded length (string)
OneByteOff(payload) ==
  {[payload EXCEPT !.data[i] = b] : <<i, b>> \in
     UNION {{<<j, o>> : o \in (IF payload.kind = "buffer" THEN PayloadBytes
                                                        ELSE {97, 98}) \ {payload.data[j]}}
              : j \in {k \in 1..Len(payload.data) :
                         payload.kind = "buffer" \/ payload.data[k] < 128}}}

\* the signature headers presented with a payload: its signature, bare and
\* prefixed, each with one character changed, the signature of a payload
\* one byte away, and a short text as in the test suite
SignatureHeaders(payload) ==
  LET good == {SignatureOf(payload), Sha256Prefix \o SignatureOf(payload)}
  IN good
       \cup UNION {OneCharOffAt(s, ChangedPositions(s)) : s \in good}
       \cup {SignatureOf(p) : p \in OneByteOff(payload)}
       \cup {<<"b","a","d">>, Sha256Prefix \o <<"b","a","d">>}

WebhookInit ==
  /\ retryOptions = RetryDefaults([maxRetries |-> None, baseDelay |-> None,
                                    maxDelay |-> None, backoffMultiplier |-> None,
                                    jitterNum |-> None])
  /\ rateLimitOptions = None
  /\ requestCount = 0
  /\ now = 0
  /\ windowStart = now
  /\ call = [c \in Calls |-> IdleCall]
  /\ \E secret \in WebhookSecrets : webhook = NewWebhookHandler(secret)
  /\ dispatch = IdleDispatch
  /\ latest = [kind \in RegisteredKinds |-> NoRegistration]
  /\ created = None

\* handler.verifySignature(payload, signature)
VerifySignature(payload, signature) ==
  /\ webhook.pc = "ready"
  /\ webhook' = [webhook EXCEPT
                   !.pc = "returned",
                   !.verified = Some(verifySignature(webhook.webhookSecret, payload, signature)),
                   !.payload = Some(payload),
                   !.signature = Some(signature)]
  /\ UNCHANGED <<clientVars, dispatch, latest, created>>

\* the caller has the answer; the handler is ready for the next call
VerifyReturned ==
  /\ webhook.pc = "returned"
  /\ webhook' = [webhook EXCEPT !.pc = "ready", !.verified = None,
                                !.payload = None, !.signature = None]
  /\ UNCHANGED <<clientVars, dispatch, latest, created>>

WebhookNext ==
  \/ /\ webhook.pc = "ready"
     /\ \E payload \in Payloads :
          \E signature \in SignatureHeaders(payload) : VerifySignature(payload, signature)
  \/ VerifyReturned

WebhookSpec == WebhookInit /\ [][WebhookNext]_vars

(***************************************************************************)
(* The registry and processWebhook: handlers are registered and removed,   *)
(* payloads are processed one call at a time, and the handlers a call      *)
(* left running complete in any order, before or after the call settles.   *)
(***************************************************************************)
\* the payloads handed to processWebhook: objects, arrays of objects, and
\* texts (of objects, of null, of arrays of both, and two that do not parse)
DispatchPayloads ==
  ObjectElements
    \cup {JsonArray(items) : items \in SeqsUpTo(ObjectElements, MaxBatch)}
    \cup {JsonText(Stringify(v)) : v \in JsonValues}
    \cup {JsonText(text) : text \in InvalidJsonTexts}

\* what the handler called for each element does
ModeChoices == [1..MaxBatch -> HandlerModes]

DispatchInit ==
  /\ retryOptions = RetryDefaults([maxRetries |-> None, baseDelay |-> None,
                                    maxDelay |-> None, backoffMultiplier |-> None,
                                    jitterNum |-> None])
  /\ rateLimitOptions = None
  /\ requestCount = 0
  /\ now = 0
  /\ windowStart = now
  /\ call = [c \in Calls |-> IdleCall]
  /\ webhook = NewWebhookHandler(None)
  /\ dispatch = IdleDispatch
  /\ latest = [kind \in RegisteredKinds |-> NoRegistration]
  /\ created = None

\* handler.registerHandler(eventType, handler)
RegisterHandler(eventType, handler) ==
  /\ webhook' = [webhook EXCEPT !.handlers = registerHandler(@, eventType, handler)]
  /\ latest' = [latest EXCEPT ![eventType] = Registration(latest[eventType], handler)]
  /\ UNCHANGED <<clientVars, dispatch, created>>

\* handler.on(eventType)(handler)
On(eventType, handler) ==
  /\ webhook' = [webhook EXCEPT !.handlers = on(@, eventType, handler)]
  /\ latest' = [latest EXCEPT ![eventType] = Registration(latest[eventType], handler)]
  /\ UNCHANGED <<clientVars, dispatch, created>>

\* handler.removeHandler(eventType)
RemoveHandler(eventType) ==
  /\ webhook' = [webhook EXCEPT !.handlers = removeHandler(@, eventType)]
  /\ latest' = [latest EXCEPT ![eventType] = NoRegistration]
  /\ UNCHANGED <<clientVars, dispatch, created>>

\* handler.processWebhook(payload), up to the point where it returns its
\* promise and the jobs already queued have run
ProcessWebhook(payload, modes) ==
  /\ dispatch.pc = "idle"
  /\ LET started == processWebhook(webhook.handlers, payload, modes)
     IN dispatch' = [pc |-> "called", payload |-> Some(payload),
                     elements |-> started.elements, promise |-> started.promise]
  /\ UNCHANGED <<clientVars, webhook, latest, created>>

\* the promise of processWebhook once the promise of element i has settled
\* as p: a rejection rejects a pending call, the last fulfilment resolves it
SettleElement(i, p) ==
  LET elements == [dispatch.elements EXCEPT ![i].promise = p]
  IN [dispatch EXCEPT
        !.elements = elements,
        !.promise = IF dispatch.promise.state = "pending"
                      THEN IF p.state = "rejected" THEN p ELSE PromiseAll(elements)
                      ELSE @]

\* the promise returned by the handler of element i is fulfilled
HandlerResolves(i) ==
  /\ dispatch.pc = "called"
  /\ i \in DOMAIN dispatch.elements
  /\ dispatch.elements[i].promise.state = "pending"
  /\ dispatch' = SettleElement(i, Fulfilled)
  /\ UNCHANGED <<clientVars, webhook, latest, created>>

\* the promise returned by the handler of element i is rejected
HandlerRejects(i) ==
  /\ dispatch.pc = "called"
  /\ i \in DOMAIN dispatch.elements
  /\ dispatch.elements[i].promise.state = "pending"
  /\ dispatch' = SettleElement(i, Rejected(HandlerError))
  /\ UNCHANGED <<clientVars, webhook, latest, created>>

\* the caller has seen the promise of processWebhook settle
ProcessReturned ==
  /\ dispatch.pc = "called"
  /\ dispatch.promise.state # "pending"
  /\ dispatch' = IdleDispatch
  /\ UNCHANGED <<clientVars, webhook, latest, created>>

DispatchNext ==
  \/ \E eventType \in RegisteredKinds, handler \in HandlerPool :
       RegisterHandler(eventType, handler)
  \/ \E eventType \in RegisteredKinds, handler \in HandlerPool : On(eventType, handler)
  \/ \E eventType \in RegisteredKinds : RemoveHandler(eventType)
  \/ /\ dispatch.pc = "idle"
     /\ \E payload \in DispatchPayloads, modes \in ModeChoices :
          ProcessWebhook(payload, modes)
  \/ \E i \in 1..MaxBatch : HandlerResolves(i)
  \/ \E i \in 1..MaxBatch : HandlerRejects(i)
  \/ ProcessReturned

DispatchSpec == DispatchInit /\ [][DispatchNext]_vars

(***************************************************************************)
(* createWebhookEvent on its own: payload objects of every kind, with and  *)
(* without the base members and with every choice of the members of the    *)
(* kind.                                                                   *)
(***************************************************************************)
BaseMembers == {"email", "lane_id", "message_id", "metadata", "tag", "timestamp"}

\* the members a payload of each kind can carry besides the base ones
KindMembers(kind) ==
  CASE kind = WebhookEventType.OPEN ->
         {"referer", "client_name", "client_os", "client_ip", "client_device"}
    [] kind = WebhookEventType.CLICK ->
         {"url", "referer", "client_name", "client_os", "client_ip", "client_device"}
    [] kind = WebhookEventType.DROP -> {"reason"}
    [] kind = WebhookEventType.SPAM_COMPLAINT ->
         {"feedback_type", "feedback_type_text", "received_unix_timestamp"}
    [] kind = WebhookEventType.UNSUBSCRIBE -> {"unsubscribe_group_id"}
    [] kind = WebhookEventType.BOUNCE ->
         {"code", "extended_code", "text", "is_hard", "deliverability_issue"}
    [] OTHER -> {}

\* the value the sender gives each member
MemberValue(name) ==
  CASE name = "metadata" -> [campaign_id |-> "camp_456"]
    [] name \in {"timestamp", "received_unix_timestamp"} -> 1753502407
    [] name \in {"feedback_type", "unsubscribe_group_id"} -> 3
    [] name = "is_hard" -> TRUE
    [] name = "email" -> "user@example.com"
    [] name = "url" -> "https://example.com/product/123"
    [] name = "code" -> "550"
    [] OTHER -> "text of " \o name

KnownKinds == {WebhookEventType[name] : name \in DOMAIN WebhookEventType}

\* an unknown discriminator, and None for a payload without discriminator
DiscriminatorChoices == {Some(kind) : kind \in KnownKinds} \cup {Some("other"), None}

PayloadData(discriminator, members) ==
  [name \in members \cup (IF IsSome(discriminator) THEN {"event"} ELSE {}) |->
     IF name = "event" THEN Get(discriminator) ELSE MemberValue(name)]

EventData ==
  UNION {{PayloadData(discriminator, base \cup extra) :
            base \in {{}, BaseMembers},
            extra \in SUBSET KindMembers(IF IsSome(discriminator)
                                           THEN Get(discriminator) ELSE "")} :
         discriminator \in DiscriminatorChoices}

EventInit ==
  /\ retryOptions = RetryDefaults([maxRetries |-> None, baseDelay |-> None,
                                    maxDelay |-> None, backoffMultiplier |-> None,
                                    jitterNum |-> None])
  /\ rateLimitOptions = None
  /\ requestCount = 0
  /\ now = 0
  /\ windowStart = now
  /\ call = [c \in Calls |-> IdleCall]
  /\ webhook = NewWebhookHandler(None)
  /\ dispatch = IdleDispatch
  /\ latest = [kind \in RegisteredKinds |-> NoRegistration]
  /\ created = None

\* createWebhookEvent(data)
CreateWebhookEvent(data) ==
  /\ created' = Some([data |-> data, event |-> createWebhookEvent(data)])
  /\ UNCHANGED <<clientVars, webhook, dispatch, latest>>

EventNext == \E data \in EventData : CreateWebhookEvent(data)

EventSpec == EventInit /\ [][EventNext]_vars

(***************************************************************************)
(* Properties.                                                             *)
(***************************************************************************)
\* validateEmail over the emails of the pool, evaluated once
ValidationOf == [email \in EmailPool |-> validateEmail(email)]

\* emailToApiFormat over the valid emails of the pool
SerializedOf ==
  [email \in {e \in EmailPool : ~IsSome(ValidationOf[e])} |-> emailToApiFormat(email)]

IsValid(email) == ~IsSome(ValidationOf[email])

\* the indices of the emails of call c that pass validateEmail
ValidIndices(c) ==
  {i - 1 : i \in {j \in 1..Len(call[c].emails) : IsValid(call[c].emails[j])}}

\* the results the list returned by call c holds for index i
ResultsAt(c, i) == {r \in Range(call[c].result) : r.index = i}

\* the results of the valid emails of call c
ValidResults(c) == UNION {ResultsAt(c, i) : i \in ValidIndices(c)}

\* every valid email of call c has a result
EveryValidHasResult(c) == \A i \in ValidIndices(c) : ResultsAt(c, i) # {}

\* the final HTTP attempt of call c was answered by a response
Answered(c) == call[c].pc = "resolved" /\ IsSome(call[c].lastResponse)

\* C1: a call on a non-empty list with at least one valid email returns, for
\* every outcome of the send path, exactly emails.length results, the result
\* at position i carrying index i.
C1_ResultsMatchInput ==
  \A c \in Calls :
    call[c].pc = "resolved" =>
      /\ Len(call[c].result) = Len(call[c].emails)
      /\ \A i \in 1..Len(call[c].result) : call[c].result[i].index = i - 1

C1_Witness ==
  \E c \in Calls :
    /\ call[c].pc = "resolved"
    /\ Len(call[c].emails) = 2
    /\ ~IsValid(call[c].emails[1])
    /\ IsValid(call[c].emails[2])
    /\ call[c].httpCalls >= 1

\* the send of call c failed: its last attempt ended in a transport error or
\* in a response with status >= 400
SendFailed(c) ==
  /\ call[c].pc \in {"resolved", "rejected"}
  /\ call[c].httpCalls >= 1
  /\ \/ ~IsSome(call[c].lastResponse)
     \/ Get(call[c].lastResponse).status >= 400

IsFailedResult(r) == r.status = "failed" /\ r.success = FALSE /\ IsSome(r.error)

RECURSIVE ExpectedSummary(_, _)
ExpectedSummary(emails, n) ==
  IF n = 0 THEN ""
  ELSE (IF n = 1 THEN "" ELSE ExpectedSummary(emails, n - 1) \o ", ")
         \o "[" \o ToString(n - 1) \o "] " \o Get(ValidationOf[emails[n]])

\* C3: if every email of a non-empty list fails validateEmail, sendEmails
\* rejects with a LanefulValidationError that lists the failure of every
\* index, and issues no HTTP request.
C3_AllInvalidRejects ==
  \A c \in Calls :
    (call[c].pc # "idle" /\ Len(call[c].emails) > 0 /\ ValidIndices(c) = {}) =>
      /\ call[c].pc = "rejected"
      /\ IsSome(call[c].thrown)
      /\ Get(call[c].thrown).name = "LanefulValidationError"
      /\ Get(call[c].thrown).message =
           "All emails failed validation: "
             \o ExpectedSummary(call[c].emails, Len(call[c].emails))
      /\ call[c].httpCalls = 0
      /\ call[c].sent = {}

C3_Witness ==
  \E c \in Calls :
    /\ call[c].pc = "rejected"
    /\ Len(call[c].emails) = 2
    /\ call[c].emails[1] # call[c].emails[2]
    /\ ValidIndices(c) = {}

\* the body of the response says { status: 'accepted' }, as an object or as
\* JSON text
BodySaysAccepted(data) ==
  \/ data.kind = "object" /\ data.obj.status = Some("accepted")
  \/ data.kind = "string" /\ data.text = "{\"status\":\"accepted\"}"

IsAcceptedResult(r) == r.status = "accepted" /\ r.success = TRUE /\ r.error = None

\* C4: a response with status < 400 whose body has status 'accepted' gives
\* every valid email a result with status 'accepted', success true, no error.
C4_AcceptedResponse ==
  \A c \in Calls :
    (/\ Answered(c)
     /\ Get(call[c].lastResponse).status < 400
     /\ BodySaysAccepted(Get(call[c].lastResponse).data)) =>
      EveryValidHasResult(c) /\ \A r \in ValidResults(c) : IsAcceptedResult(r)

C4_Witness ==
  \E c \in Calls :
    /\ Answered(c)
    /\ Get(call[c].lastResponse).status < 400
    /\ BodySaysAccepted(Get(call[c].lastResponse).data)
    /\ Cardinality(ValidIndices(c)) = 1
    /\ Len(call[c].emails) = 2

\* the body of the response is { error: X }: the X, if so
BodyError(data) ==
  IF data.kind = "object" /\ data.obj.status = None /\ data.obj.message = None
    THEN data.obj.error
  ELSE IF data.kind = "string" /\ data.text = "{\"error\":\"Quota exceeded\"}"
    THEN Some("Quota exceeded")
  ELSE None

\* the response that ended call c was not a 401 and had the body { error: X }
AnsweredWithError(c) ==
  /\ Answered(c)
  /\ Get(call[c].lastResponse).status # 401
  /\ IsSome(BodyError(Get(call[c].lastResponse).data))

ErrorOfAnswer(c) == Get(BodyError(Get(call[c].lastResponse).data))

\* C5 as stated: an answer (status other than 401) with body { error: X }
\* gives every valid email a result with success false and error X.
C5_Original ==
  \A c \in Calls :
    AnsweredWithError(c) =>
      \A i \in ValidIndices(c) : \A r \in ResultsAt(c, i) :
        r.success = FALSE /\ r.error = Some(ErrorOfAnswer(c))

\* C5, amended: the same for a non-empty X; for an empty X the error is ""
\* under status >= 400 and 'Unknown error' under status < 400.
C5_ErrorResponse ==
  \A c \in Calls :
    AnsweredWithError(c) =>
      LET expected ==
            IF ErrorOfAnswer(c) = "" /\ Get(call[c].lastResponse).status < 400
              THEN "Unknown error"
              ELSE ErrorOfAnswer(c)
      IN /\ EveryValidHasResult(c)
         /\ \A r \in ValidResults(c) : r.success = FALSE /\ r.error = Some(expected)

C5_Witness ==
  \E c \in Calls :
    /\ AnsweredWithError(c)
    /\ ErrorOfAnswer(c) = "Invalid email"
    /\ Get(call[c].lastResponse).status = 400
    /\ Cardinality(ValidIndices(c)) = 2

IsAuthFailedResult(r) ==
  /\ r.status = "failed"
  /\ r.success = FALSE
  /\ r.error = Some("Invalid authentication token")

OnlyRetryableFailures(c) ==
  /\ call[c].httpCalls >= 1
  /\ call[c].pc # "inflight"
  /\ call[c].retryableFailures = call[c].httpCalls

\* C7: while every attempt of a call fails with a retryable transport error,
\* the call goes on to another attempt until the request has been issued
\* maxRetries + 1 times, and then it gives up.
C7_RetriesExhausted ==
  \A c \in Calls :
    /\ call[c].httpCalls <= retryOptions.maxRetries + 1
    /\ OnlyRetryableFailures(c) =>
         IF call[c].httpCalls = retryOptions.maxRetries + 1
           THEN call[c].pc = "resolved"
           ELSE call[c].pc = "sleeping"

C7_Witness ==
  \E c \in Calls :
    /\ OnlyRetryableFailures(c)
    /\ call[c].pc = "resolved"
    /\ retryOptions.maxRetries = 2
    /\ call[c].httpCalls = 3

\* 5xx other than 501, or 429
RetryableStatus(status) == (status >= 500 /\ status # 501) \/ status = 429

\* C8 as stated: a response with status 5xx other than 501, or 429, is
\* retried while attempts remain: the call sleeps and re-issues the request.
C8_Original ==
  \A c \in Calls :
    (/\ IsSome(call[c].lastResponse)
     /\ RetryableStatus(Get(call[c].lastResponse).status)
     /\ call[c].attempt < retryOptions.maxRetries) =>
      call[c].pc \in {"sleeping", "inflight"}

\* C9: a response with status 401, or another 4xx status except 429, ends
\* the call: no further HTTP request is issued, attempts remaining or not.
FatalStatus(status) == status >= 400 /\ status < 500 /\ status # 429

C9_ClientErrorsNotRetried ==
  \A c \in Calls :
    (IsSome(call[c].lastResponse) /\ FatalStatus(Get(call[c].lastResponse).status)) =>
      /\ call[c].pc = "resolved"
      /\ call[c].httpCalls = call[c].attempt + 1

C9_Witness ==
  \E c \in Calls :
    /\ Answered(c)
    /\ Get(call[c].lastResponse).status = 401
    /\ call[c].attempt = 1
    /\ retryOptions.maxRetries = 2

\* the limiter is full at this moment: maxRequests calls (one at least) have
\* passed it in the current window, which has not elapsed
LimiterFull ==
  /\ IsSome(rateLimitOptions)
  /\ Get(rateLimitOptions).maxRequests >= 1
  /\ requestCount >= Get(rateLimitOptions).maxRequests
  /\ now - windowStart < Get(rateLimitOptions).windowMs

\* C10 as stated: a sendEmails call with a valid email, made while the
\* limiter is full, rejects with the rate-limit error.
C10_Original ==
  [][\A c \in Calls :
       (/\ LimiterFull
        /\ call[c].pc = "idle"
        /\ call'[c].pc # "idle"
        /\ Len(call'[c].validEmailData) >= 1) =>
         call'[c].pc = "rejected"]_vars

\* the limiter refuses the next request: the counter has reached maxRequests
\* inside the current window
LimiterRefuses ==
  /\ IsSome(rateLimitOptions)
  /\ requestCount >= Get(rateLimitOptions).maxRequests
  /\ now - windowStart < Get(rateLimitOptions).windowMs

\* call c starts in this step, with at least one valid email
StartsSend(c) ==
  /\ call[c].pc = "idle"
  /\ call'[c].pc # "idle"
  /\ Len(call'[c].validEmailData) >= 1

IsRateLimitResult(r) ==
  /\ IsFailedResult(r)
  /\ \E n \in 1..CeilDiv(Get(rateLimitOptions).windowMs, MsPerSecond) :
       Get(r.error) = "Rate limit exceeded. Try again in " \o ToString(n) \o " seconds."

\* C11: a sendEmails call that the limiter refuses is over in the step that
\* starts it: it has issued no HTTP request, it is not waiting for a timer
\* or a response, nothing of it is left pending, and every valid email has
\* the rate-limit failure as its result.
C11_RefusalIsImmediate ==
  [][\A c \in Calls :
       (LimiterRefuses /\ StartsSend(c)) =>
         /\ call'[c].pc \in {"resolved", "rejected"}
         /\ call'[c].httpCalls = 0
         /\ call'[c].sent = {}
         /\ call'[c].sleepMs = 0
         /\ call'[c].attempt = 0
         /\ requestCount' = requestCount
         /\ \A v \in Range(call'[c].validEmailData) :
              \E r \in Range(call'[c].result) :
                r.index = v.originalIndex /\ IsRateLimitResult(r)]_vars

\* a refused call: settled without any request, after an earlier call of the
\* same window went through
C11_Witness ==
  \E c \in Calls :
    /\ call[c].refused
    /\ call[c].pc = "resolved"
    /\ call[c].httpCalls = 0
    /\ IsSome(rateLimitOptions)
    /\ requestCount = Get(rateLimitOptions).maxRequests
    /\ requestCount >= 1

\* the window of the limiter has elapsed
WindowElapsed ==
  /\ IsSome(rateLimitOptions)
  /\ now - windowStart >= Get(rateLimitOptions).windowMs

\* C12: once windowMs or more has elapsed since windowStart, the next
\* sendEmails call (with a valid email, maxRequests >= 1) starts a new window
\* at the current time, counts as its first request and passes the limiter:
\* its HTTP request is issued, however full the old window was.
C12_WindowReset ==
  [][\A c \in Calls :
       (/\ WindowElapsed
        /\ Get(rateLimitOptions).maxRequests >= 1
        /\ StartsSend(c)) =>
         /\ windowStart' = now
         /\ requestCount' = 1
         /\ call'[c].pc = "inflight"
         /\ call'[c].httpCalls = 1
         /\ ~call'[c].refused]_vars

\* a call that passed the limiter in a window begun after the first one
C12_Witness ==
  \E c \in Calls :
    /\ IsSome(rateLimitOptions)
    /\ Get(rateLimitOptions).maxRequests = 1
    /\ windowStart > 0
    /\ windowStart = now
    /\ requestCount = 1
    /\ call[c].pc = "inflight"
    /\ call[c].httpCalls = 1

InvalidIndices(c) ==
  {i \in 0..(Len(call[c].emails) - 1) : ~IsValid(call[c].emails[i + 1])}

\* the batch of call c mixes valid and invalid emails
MixedBatch(c) == ValidIndices(c) # {} /\ InvalidIndices(c) # {}

\* the positions of the result list that hold the result r
PositionsOf(c, r) == {k \in DOMAIN call[c].result : call[c].result[k] = r}

\* C13: a call with a mixed batch never rejects, and when it has settled,
\* every invalid email has exactly one result: status 'validation_failed',
\* success false, the message of its own validation error and its original
\* index; this whatever happened to the request for the valid emails.
C13_InvalidEmailsInMixedBatch ==
  \A c \in Calls :
    MixedBatch(c) =>
      /\ call[c].pc # "rejected"
      /\ call[c].pc = "resolved" =>
           \A i \in InvalidIndices(c) :
             LET expected == EmailResponse("validation_failed", i,
                                           ValidationOf[call[c].emails[i + 1]], FALSE)
             IN /\ ResultsAt(c, i) = {expected}
                /\ Cardinality(PositionsOf(c, expected)) = 1

\* a mixed batch, the invalid email first, whose request failed in transport
C13_Witness ==
  \E c \in Calls :
    /\ call[c].pc = "resolved"
    /\ MixedBatch(c)
    /\ 0 \in InvalidIndices(c)
    /\ call[c].httpCalls >= 1
    /\ ~IsSome(call[c].lastResponse)
    /\ IsSome(call[c].lastError)

\* the wire form of the valid emails of a list, in list order
RECURSIVE SerializedValid(_)
SerializedValid(emails) ==
  IF emails = <<>> THEN <<>>
  ELSE (IF IsValid(Head(emails)) THEN <<SerializedOf[Head(emails)]>> ELSE <<>>)
         \o SerializedValid(Tail(emails))

\* C14: every HTTP request of a sendEmails call, the first attempt and each
\* retry, has the body {emails: [...]} that lists the serialized valid emails
\* of the call, all of them, in their original order, and no invalid one.
C14_OneBodyPerCall ==
  \A c \in Calls :
    /\ call[c].httpCalls = 0 => call[c].sent = {}
    /\ call[c].httpCalls >= 1 =>
         /\ call[c].sent = {[emails |-> SerializedValid(call[c].emails)]}
         /\ call[c].httpCalls = call[c].attempt + 1

\* two valid emails, sent a second time by a retry
C14_Witness ==
  \E c \in Calls :
    /\ call[c].emails = <<SecondEmail, ValidEmail>>
    /\ call[c].httpCalls = 2
    /\ call[c].pc = "inflight"

\* C15: in a list returned by sendEmails the results of the valid emails are
\* all alike: either all 'accepted' without error, or all 'failed' with one
\* and the same message; accepted and failed never mix in one call.
C15_AggregateResults ==
  \A c \in Calls :
    call[c].pc = "resolved" =>
      /\ \A r \in ValidResults(c) : r.status \in {"accepted", "failed"}
      /\ \A r1, r2 \in ValidResults(c) :
           /\ r1.status = r2.status
           /\ r1.success = r2.success
           /\ r1.error = r2.error

\* two valid emails that share the failure of their request
C15_Witness ==
  \E c \in Calls :
    /\ call[c].pc = "resolved"
    /\ ValidIndices(c) = {0, 1}
    /\ call[c].httpCalls >= 1
    /\ \A i \in {0, 1} : \E r \in ResultsAt(c, i) : IsFailedResult(r)

\* the class of error the documentation promises the caller's catch block
\* for a call whose request failed
DocumentedErrorName(c) ==
  IF ~IsSome(call[c].lastResponse) THEN "LanefulError"
  ELSE IF Get(call[c].lastResponse).status = 401 THEN "LanefulAuthError"
  ELSE "LanefulAPIError"

\* C16 as stated: when the API call of sendEmails (or sendEmail) fails, the
\* call rejects: with a LanefulAuthError for a 401 response, a LanefulAPIError
\* carrying the status code for another error status, a LanefulError
\* otherwise.
C16_Original ==
  \A c \in Calls :
    SendFailed(c) =>
      /\ call[c].pc = "rejected"
      /\ IsSome(call[c].thrown)
      /\ Get(call[c].thrown).name = DocumentedErrorName(c)
      /\ Get(call[c].thrown).name = "LanefulAPIError" =>
           Get(call[c].thrown).statusCode = Get(call[c].lastResponse).status

\* C17: a sendEmail(e) call is the sendEmails([e]) call it makes: when that
\* resolves, its list has exactly one result, of index 0, and sendEmail
\* resolves to that element; when it rejects, sendEmail rejects with the
\* same error, which for an invalid e is the LanefulValidationError of a
\* batch whose emails all failed validation.
C17_SendEmailIsSugar ==
  \A c \in Calls :
    (call[c].api = "sendEmail" /\ call[c].pc \in {"resolved", "rejected"}) =>
      /\ Len(call[c].emails) = 1
      /\ call[c].pc = "resolved" =>
           /\ IsValid(call[c].emails[1])
           /\ Len(call[c].result) = 1
           /\ call[c].result[1].index = 0
           /\ call[c].value = Some(call[c].result[1])
           /\ call[c].thrown = None
      /\ call[c].pc = "rejected" =>
           /\ ~IsValid(call[c].emails[1])
           /\ call[c].value = None
           /\ call[c].thrown = Some(LanefulValidationError(
                  "All emails failed validation: [0] "
                    \o Get(ValidationOf[call[c].emails[1]])))
           /\ call[c].httpCalls = 0

\* sendEmail resolved to the accepted result of its email
C17_Witness ==
  \E c \in Calls :
    /\ call[c].api = "sendEmail"
    /\ call[c].pc = "resolved"
    /\ IsSome(call[c].value)
    /\ IsAcceptedResult(Get(call[c].value))

\* C18: sendEmails called with an empty list rejects with the
\* LanefulValidationError 'Email list cannot be empty'; no email has been
\* validated and no HTTP request issued.
C18_EmptyListRejected ==
  /\ \A c \in Calls :
       (call[c].pc \in {"resolved", "rejected"} /\ Len(call[c].emails) = 0) =>
         /\ call[c].pc = "rejected"
         /\ call[c].thrown = Some(LanefulValidationError("Email list cannot be empty"))
         /\ call[c].validationErrors = <<>>
         /\ call[c].validEmailData = <<>>
         /\ call[c].httpCalls = 0
         /\ call[c].sent = {}
  /\ \A c \in Calls : call[c].pc # "idle" /\ Len(call[c].emails) = 0 => call[c].pc = "rejected"

\* an empty list was rejected
C18_Witness ==
  \E c \in Calls :
    /\ call[c].pc = "rejected"
    /\ call[c].api = "sendEmails"
    /\ call[c].emails = <<>>
    /\ IsSome(call[c].thrown)

\* the handler has a secret that verifySignature uses
SecretConfigured ==
  IsSome(webhook.webhookSecret) /\ Get(webhook.webhookSecret) # <<>>

\* verifySignature has returned for a handler with a secret
VerifiedWithSecret == webhook.pc = "returned" /\ SecretConfigured

\* the hex HMAC-SHA256 of the raw payload bytes under the handler's secret
ExpectedHex ==
  HexEncode(Hmac(Utf8(Get(webhook.webhookSecret)),
                 IF Get(webhook.payload).kind = "buffer"
                   THEN Get(webhook.payload).data
                   ELSE Utf8(Get(webhook.payload).data)))

\* C19: with a secret configured, verifySignature(payload, sig) returns true
\* when sig is the hex HMAC-SHA256 of the raw payload bytes under the
\* secret, given bare or with the prefix 'sha256=', for a string payload and
\* for a Buffer payload.
C19_ValidSignatureVerifies ==
  (/\ VerifiedWithSecret
   /\ Get(webhook.signature) \in {ExpectedHex, Sha256Prefix \o ExpectedHex}) =>
     webhook.verified = Some(Returned(TRUE))

\* a Buffer payload with a two-byte character, its signature prefixed
C19_Witness ==
  /\ VerifiedWithSecret
  /\ Get(webhook.payload) = BufferPayload(<<195, 169>>)
  /\ Get(webhook.signature) = Sha256Prefix \o ExpectedHex
  /\ webhook.verified = Some(Returned(TRUE))

\* C20 as stated: with a secret configured, when verifySignature(p, s) is
\* true, verifySignature(p', s) is false for every payload p' that differs
\* from p in one byte, and verifySignature(p, s') is false for every
\* signature s' that differs from s in one character.
C20_Original ==
  (VerifiedWithSecret /\ webhook.verified = Some(Returned(TRUE))) =>
     /\ \A p \in OneByteOff(Get(webhook.payload)) :
          verifySignature(webhook.webhookSecret, p, Get(webhook.signature))
            = Returned(FALSE)
     /\ \A sig \in OneCharOff(Get(webhook.signature)) :
          verifySignature(webhook.webhookSecret, Get(webhook.payload), sig)
            = Returned(FALSE)

\* C21: on a handler constructed without a secret, verifySignature returns
\* true for every payload and every signature value.
C21_NoSecretVerifiesAll ==
  (webhook.pc = "returned" /\ ~IsSome(webhook.webhookSecret)) =>
     webhook.verified = Some(Returned(TRUE))

\* a handler without a secret accepted a text that is no signature
C21_Witness ==
  /\ webhook.pc = "returned"
  /\ ~IsSome(webhook.webhookSecret)
  /\ Get(webhook.signature) = <<"b","a","d">>
  /\ Len(Get(webhook.payload).data) >= 1
  /\ webhook.verified = Some(Returned(TRUE))

\* C22 as stated: for every payload and every signature string,
\* verifySignature returns true or false and does not throw.
C22_Original ==
  webhook.pc = "returned" =>
    /\ ~Get(webhook.verified).thrown
    /\ Get(webhook.verified).value \in {Some(TRUE), Some(FALSE)}

\* the JSON value processWebhook works on, None when the text does not parse
PayloadValue(payload) ==
  IF payload.type # "string" THEN Some(payload)
  ELSE IF payload.text \in DOMAIN ParsedTexts THEN Some(ParsedTexts[payload.text])
  ELSE None

\* the call in progress was given a batch
IsBatch(d) ==
  /\ d.pc = "called"
  /\ IsSome(PayloadValue(Get(d.payload)))
  /\ Get(PayloadValue(Get(d.payload))).type = "array"

\* the discriminator of a payload element, "" when it has none
ElementKind(eventData) ==
  IF eventData.type = "object" /\ "event" \in DOMAIN eventData.data
    THEN eventData.data.event
    ELSE ""

HasDiscriminator(eventData) == ElementKind(eventData) # ""

\* the handler the registrations so far leave for a kind
HandlerOf(kind) == IF kind \in RegisteredKinds THEN latest[kind].handler ELSE None

\* a step in which processWebhook is called
Started == dispatch.pc = "idle" /\ dispatch'.pc = "called"

\* a step within one processWebhook call
Continued == dispatch.pc = "called" /\ dispatch'.pc = "called"

\* the handler calls made for the elements of a call
CallsOf(d) == [i \in DOMAIN d.elements |-> d.elements[i].calls]

\* the registry holds, for each kind, the latest registration and nothing
\* else, and getRegisteredEventTypes lists the kinds that have one, once each
RegistryAgrees ==
  /\ \A kind \in RegisteredKinds :
       /\ Cardinality({i \in DOMAIN webhook.handlers :
                         webhook.handlers[i].key = kind}) <= 1
       /\ MapGet(webhook.handlers, kind) = latest[kind].handler
  /\ LET types == getRegisteredEventTypes(webhook.handlers)
     IN /\ Range(types) = {kind \in RegisteredKinds : IsSome(latest[kind].handler)}
        /\ \A i, j \in DOMAIN types : types[i] = types[j] => i = j

\* a call invokes, for each element, the latest handler of its kind
InvokesLatest ==
  Started =>
    \A i \in DOMAIN dispatch'.elements :
      LET element == dispatch'.elements[i]
          kind == ElementKind(element.eventData)
      IN \A j \in DOMAIN element.calls :
           /\ Some(element.calls[j].handler) = HandlerOf(kind)
           /\ element.calls[j].event.event = Some(kind)

\* C23: after any sequence of registerHandler, on(kind)(h) and removeHandler
\* each kind maps to at most one handler, the one registered last and not
\* removed since; an event of a kind invokes that handler and no earlier
\* one; getRegisteredEventTypes returns the kinds that have a handler, each
\* once.
C23_LastRegistrationWins == [][RegistryAgrees' /\ InvokesLatest]_vars

\* "h2" replaced another handler of delivery events and was called for one,
\* while open events have a handler too
C23_Witness ==
  /\ latest[WebhookEventType.DELIVERY] = [handler |-> Some("h2"), replaced |-> TRUE]
  /\ Len(getRegisteredEventTypes(webhook.handlers)) = 2
  /\ dispatch.pc = "called"
  /\ Get(dispatch.payload) = JsonObject(DeliveryData)
  /\ Len(dispatch.elements[1].calls) = 1
  /\ dispatch.elements[1].calls[1].handler = "h2"

C25_FailureDoesNotStopDispatch ==
  [][/\ (Started /\ IsBatch(dispatch')) =>
          \A j \in DOMAIN dispatch'.elements :
            dispatch'.elements[j].promise.state = "rejected" =>
              \A i \in DOMAIN dispatch'.elements \ {j} :
                LET element == dispatch'.elements[i]
                    handler == HandlerOf(ElementKind(element.eventData))
                IN IsSome(handler) =>
                     /\ Len(element.calls) = 1
                     /\ element.calls[1].handler = Get(handler)
     /\ Continued => CallsOf(dispatch') = CallsOf(dispatch)]_vars

\* the first element of a batch has no discriminator and the handler of the
\* second was called all the same
C25_Witness ==
  /\ IsBatch(dispatch)
  /\ Len(dispatch.elements) = 2
  /\ dispatch.elements[1].eventData = JsonObject(NoEventData)
  /\ dispatch.elements[1].promise.state = "rejected"
  /\ Len(dispatch.elements[2].calls) = 1
  /\ dispatch.elements[2].promise.state = "fulfilled"

\* the number of handler calls of a processWebhook call made with handler
NumberOfCalls(d, handler) ==
  Cardinality({<<i, j>> \in (DOMAIN d.elements) \X (1..2) :
                 j \in DOMAIN d.elements[i].calls
                   /\ d.elements[i].calls[j].handler = handler})

\* C26: for a batch whose elements all carry a discriminator each element
\* causes exactly one invocation of the handler registered for its kind: a
\* handler is invoked once per element of its kind, never twice and never
\* skipped, in whatever order asynchronous handlers complete.
C26_OneInvocationPerElement ==
  [][/\ (/\ Started
         /\ IsBatch(dispatch')
         /\ \A i \in DOMAIN dispatch'.elements :
              HasDiscriminator(dispatch'.elements[i].eventData)) =>
          /\ \A i \in DOMAIN dispatch'.elements :
               LET element == dispatch'.elements[i]
                   handler == HandlerOf(ElementKind(element.eventData))
               IN Len(element.calls) = IF IsSome(handler) THEN 1 ELSE 0
          /\ \A handler \in HandlerPool :
               NumberOfCalls(dispatch', handler) =
                 Cardinality({i \in DOMAIN dispatch'.elements :
                    HandlerOf(ElementKind(dispatch'.elements[i].eventData))
                      = Some(handler)})
     /\ Continued => CallsOf(dispatch') = CallsOf(dispatch)]_vars

\* two delivery events in one batch, one call each; the handler of the
\* second has completed before that of the first
C26_Witness ==
  /\ IsBatch(dispatch)
  /\ Len(dispatch.elements) = 2
  /\ \A i \in 1..2 :
       /\ dispatch.elements[i].eventData = JsonObject(DeliveryData)
       /\ Len(dispatch.elements[i].calls) = 1
  /\ dispatch.elements[1].promise.state = "pending"
  /\ dispatch.elements[2].promise.state = "fulfilled"
  /\ Get(dispatch.payload).type = "string"

\* the messages an error wrapping a SyntaxError of JSON.parse can carry
\* after the text 'Invalid JSON payload'
ParseErrorTails == {": " \o ErrorToString(SyntaxError(text)) : text \in InvalidJsonTexts}

\* C27: processWebhook given a string that is not valid JSON rejects with an
\* error whose message contains 'Invalid JSON payload' and invokes no
\* handler.
C27_InvalidJsonRejected ==
  (/\ dispatch.pc = "called"
   /\ Get(dispatch.payload).type = "string"
   /\ Get(dispatch.payload).text \in InvalidJsonTexts) =>
     /\ dispatch.promise.state = "rejected"
     /\ Get(dispatch.promise.error).message
          \in {"Invalid JSON payload" \o tail : tail \in ParseErrorTails}
     /\ dispatch.elements = <<>>

\* 'invalid-json' was refused while delivery events have a handler
C27_Witness ==
  /\ dispatch.pc = "called"
  /\ Get(dispatch.payload) = JsonText("invalid-json")
  /\ dispatch.promise.state = "rejected"
  /\ IsSome(latest[WebhookEventType.DELIVERY].handler)

\* C28 as stated: processing an element whose discriminator is missing or
\* empty raises 'Webhook payload missing required field: event' and invokes
\* no handler for it.
C28_Original ==
  dispatch.pc = "called" =>
    \A i \in DOMAIN dispatch.elements :
      LET element == dispatch.elements[i]
      IN ~HasDiscriminator(element.eventData) =>
           /\ element.calls = <<>>
           /\ element.promise.state = "rejected"
           /\ Get(element.promise.error).message
                = "Webhook payload missing required field: event"

\* C28: an element without discriminator, or with an empty one, is a hard
\* failure: no handler is invoked for it, its processing raises 'Webhook
\* payload missing required field: event' when the element is an object and
\* a TypeError when it is null, and processWebhook rejects.
C28_MissingDiscriminatorFails ==
  dispatch.pc = "called" =>
    \A i \in DOMAIN dispatch.elements :
      LET element == dispatch.elements[i]
      IN ~HasDiscriminator(element.eventData) =>
           /\ element.calls = <<>>
           /\ element.promise.state = "rejected"
           /\ IF element.eventData.type = "null"
                THEN Get(element.promise.error).name = "TypeError"
                ELSE /\ Get(element.promise.error).name = "Error"
                     /\ Get(element.promise.error).message
                          = "Webhook payload missing required field: event"
           /\ dispatch.promise.state = "rejected"

\* a batch of an object with an empty discriminator and a delivery event
\* whose handler was called
C28_Witness ==
  /\ IsBatch(dispatch)
  /\ Len(dispatch.elements) = 2
  /\ dispatch.elements[1].eventData = JsonObject(EmptyEventData)
  /\ dispatch.elements[1].promise = Rejected(MissingEventError)
  /\ dispatch.elements[2].eventData = JsonObject(DeliveryData)
  /\ Len(dispatch.elements[2].calls) = 1
  /\ dispatch.promise = Rejected(MissingEventError)

\* C29: an event whose kind has no registered handler is silently ignored:
\* no handler is called for it, its processing succeeds, and processWebhook
\* resolves when no other element fails or is still being handled.
C29_UnregisteredKindIgnored ==
  [][Started =>
       /\ \A i \in DOMAIN dispatch'.elements :
            LET element == dispatch'.elements[i]
            IN (/\ HasDiscriminator(element.eventData)
                /\ ~IsSome(HandlerOf(ElementKind(element.eventData)))) =>
                  /\ element.calls = <<>>
                  /\ element.promise = Fulfilled
       /\ (/\ dispatch'.elements # <<>>
           /\ \A i \in DOMAIN dispatch'.elements :
                /\ HasDiscriminator(dispatch'.elements[i].eventData)
                /\ ~IsSome(HandlerOf(ElementKind(dispatch'.elements[i].eventData)))) =>
             dispatch'.promise = Fulfilled]_vars

\* an open event was processed with a handler registered for delivery events
\* only: the call resolved and called nothing
C29_Witness ==
  /\ dispatch.pc = "called"
  /\ Get(dispatch.payload) = JsonObject(OpenData)
  /\ dispatch.elements[1].calls = <<>>
  /\ dispatch.promise = Fulfilled
  /\ IsSome(latest[WebhookEventType.DELIVERY].handler)
  /\ ~IsSome(latest[WebhookEventType.OPEN].handler)

\* the extra fields each variant declares as required, and as optional
RequiredFields(kind) ==
  CASE kind = WebhookEventType.CLICK -> {"url"}
    [] kind = WebhookEventType.DROP -> {"reason"}
    [] kind = WebhookEventType.SPAM_COMPLAINT ->
         {"feedback_type", "feedback_type_text", "received_unix_timestamp"}
    [] kind = WebhookEventType.BOUNCE -> {"code", "text", "is_hard"}
    [] OTHER -> {}

OptionalFields(kind) ==
  CASE kind \in {WebhookEventType.OPEN, WebhookEventType.CLICK} ->
         {"referer", "client_name", "client_os", "client_ip", "client_device"}
    [] kind = WebhookEventType.UNSUBSCRIBE -> {"unsubscribe_group_id"}
    [] kind = WebhookEventType.BOUNCE -> {"extended_code", "deliverability_issue"}
    [] OTHER -> {}

\* the empty or zero value of a field
DefaultValue(name) ==
  CASE name = "metadata" -> EmptyObject
    [] name \in {"timestamp", "feedback_type", "received_unix_timestamp"} -> 0
    [] name = "is_hard" -> FALSE
    [] OTHER -> ""

\* the last createWebhookEvent call was given a known discriminator
CreatedKnown ==
  /\ IsSome(created)
  /\ "event" \in DOMAIN Get(created).data
  /\ Get(created).data.event \in KnownKinds

\* C30 as stated: for a known discriminator every field of the constructed
\* event is defined, a field absent from the payload taking an empty or
\* zero value.
C30_Original ==
  CreatedKnown =>
    \A name \in DOMAIN Get(created).event : IsSome(Get(created).event[name])

\* C30: for a known discriminator the constructed event has the base fields
\* and the fields of its variant; a base field or a required field of the
\* variant holds the payload's value, or '' / 0 / {} / false when the
\* payload lacks it; a field the variant declares optional holds the
\* payload's value and is undefined when the payload lacks it.
C30_AbsentFieldsDefault ==
  CreatedKnown =>
    LET data == Get(created).data
        event == Get(created).event
        kind == data.event
    IN /\ DOMAIN event =
            {"event"} \cup BaseMembers \cup RequiredFields(kind) \cup OptionalFields(kind)
       /\ event.event = Some(kind)
       /\ \A name \in BaseMembers \cup RequiredFields(kind) :
            event[name] = Some(IF name \in DOMAIN data THEN data[name]
                                                       ELSE DefaultValue(name))
       /\ \A name \in OptionalFields(kind) :
            event[name] = IF name \in DOMAIN data THEN Some(data[name]) ELSE None

\* a click event built from a payload that carries the discriminator and
\* client_os only
C30_Witness ==
  /\ CreatedKnown
  /\ DOMAIN Get(created).data = {"event", "client_os"}
  /\ Get(created).data.event = WebhookEventType.CLICK
  /\ Get(created).event.url = Some("")
  /\ Get(created).event.timestamp = Some(0)
  /\ Get(created).event.referer = None
  /\ IsSome(Get(created).event.client_os)

\* the calls that pass the limiter in a step: they leave sendEmails' start
\* with their first request in flight
PassingCalls == {c \in Calls : call[c].pc = "idle" /\ call'[c].pc = "inflight"}

\* a step in which the limiter starts a new window
WindowResets == windowStart' # windowStart

\* C31: for any interleaving of concurrent sendEmails calls on one client
\* the number of calls that pass the limiter between two consecutive window
\* resets never exceeds maxRequests, and requestCount never exceeds
\* maxRequests: requestCount is the number of calls passed since the last
\* reset, and it stays within maxRequests.
C31_AtMostMaxPerWindow ==
  [][IsSome(rateLimitOptions) =>
       /\ requestCount' = (IF WindowResets THEN 0 ELSE requestCount)
                            + Cardinality(PassingCalls)
       /\ requestCount' <= Get(rateLimitOptions).maxRequests]_vars

\* with one request per window, one caller's request is in flight or
\* between attempts while the other caller has been refused
C31_Witness ==
  /\ IsSome(rateLimitOptions)
  /\ Get(rateLimitOptions).maxRequests = 1
  /\ requestCount = 1
  /\ call["c1"].pc = "sleeping"
  /\ call["c2"].pc = "resolved"
  /\ call["c2"].refused

\* a step in which no sendEmails call starts
NoCallStarts == \A c \in Calls : call[c].pc = "idle" => call'[c].pc = "idle"

\* C32: with a limiter configured, the rate-limit check runs once per
\* sendEmails call, before the first HTTP attempt, and not per retry:
\* requestCount grows by exactly 1 in the step where the call reaches the
\* send path, no later step of the call (response, transport error, sleep,
\* retry, settling) touches requestCount or windowStart, and the request
\* that follows a sleep is always issued, never refused.
C32_LimiterOncePerCall ==
  [][/\ NoCallStarts => (requestCount' = requestCount /\ windowStart' = windowStart)
     /\ \A c \in PassingCalls :
          IsSome(rateLimitOptions) =>
            requestCount' = (IF WindowResets THEN 0 ELSE requestCount) + 1
     /\ \A c \in Calls :
          (call[c].pc = "sleeping" /\ call'[c] # call[c]) =>
             /\ call'[c].pc = "inflight"
             /\ call'[c].httpCalls = call[c].httpCalls + 1
             /\ ~call'[c].refused]_vars

\* a call that made three HTTP attempts and settled: it was counted once
C32_Witness ==
  /\ IsSome(rateLimitOptions)
  /\ Get(rateLimitOptions).maxRequests = 2
  /\ call["c1"].pc = "resolved"
  /\ call["c1"].httpCalls = 3
  /\ requestCount = 1
  /\ now = windowStart

\* C33: one sendEmails call issues at most maxRetries + 1 HTTP requests, and
\* none after an attempt that returned a response or failed with an error
\* that is not retryable: every request after the first follows a retryable
\* transport failure, and a call that has received a response has settled.
C33_RetryLoopStops ==
  \A c \in Calls :
    /\ call[c].httpCalls <= retryOptions.maxRetries + 1
    /\ call[c].httpCalls <= call[c].retryableFailures + 1
    /\ IsSome(call[c].lastResponse) => call[c].pc \in {"resolved", "rejected"}
    /\ call[c].pc = "sleeping" =>
         (IsSome(call[c].lastError) /\ Get(call[c].lastError).code \in RetryableCodes)

\* with two retries allowed, the first attempt failed with an error that is
\* not retryable and the call settled after that one request
C33_Witness ==
  /\ retryOptions.maxRetries = 2
  /\ call["c1"].pc = "resolved"
  /\ call["c1"].httpCalls = 1
  /\ IsSome(call["c1"].lastError)
  /\ Get(call["c1"].lastError).code = "ERR_NETWORK"

\* d of C34: min(baseDelay * backoffMultiplier^k, maxDelay)
CappedDelay(k) ==
  Min(retryOptions.baseDelay * Pow(retryOptions.backoffMultiplier, k),
      retryOptions.maxDelay)

\* C34: the suspension after failed attempt k is floor(d + j) with
\* d = min(baseDelay * backoffMultiplier^k, maxDelay) and j = d * jitter * r
\* for a draw 0 <= r < 1: it is at least d, below d * (1 + jitter), at most
\* maxDelay * (1 + jitter); d does not decrease with k; and a call sleeps
\* only after a retryable failure with attempts remaining.
C34_BackoffDelay ==
  /\ \A k \in 0..(retryOptions.maxRetries - 1) :
       retryOptions.backoffMultiplier >= 1 => CappedDelay(k) <= CappedDelay(k + 1)
  /\ \A c \in Calls :
       call[c].pc = "sleeping" =>
         LET d == CappedDelay(call[c].attempt)
             num == retryOptions.jitterNum
         IN /\ \E r \in 0..(RandDen - 1) :
                 call[c].sleepMs = (d * JitterDen * RandDen + d * num * r)
                                     \div (JitterDen * RandDen)
            /\ call[c].sleepMs >= d
            /\ call[c].sleepMs * JitterDen < d * (JitterDen + num)
            /\ call[c].sleepMs * JitterDen <= retryOptions.maxDelay * (JitterDen + num)
            /\ call[c].attempt < retryOptions.maxRetries
            /\ IsSome(call[c].lastError)
            /\ Get(call[c].lastError).code \in RetryableCodes

\* the second suspension, capped by maxDelay and lengthened by jitter
C34_Witness ==
  /\ retryOptions.maxDelay = 1500
  /\ call["c1"].pc = "sleeping"
  /\ call["c1"].attempt = 1
  /\ call["c1"].sleepMs > 1500

\* the transport error of the last attempt of a call that no response ended
LastTransportCode(c) ==
  IF call[c].pc = "resolved" /\ ~IsSome(call[c].lastResponse)
       /\ IsSome(call[c].lastError) /\ Get(call[c].lastError).name = "AxiosError"
    THEN Get(call[c].lastError).code
    ELSE ""

\* C35 as stated: when the last failure is a timeout (ECONNABORTED or
\* ETIMEDOUT) every valid email's result is 'failed' with the error
\* 'Request timed out'; when it is a connection failure (ECONNREFUSED or
\* ENOTFOUND), with 'Failed to connect to Laneful API'.
C35_Original ==
  \A c \in Calls :
    /\ LastTransportCode(c) \in {"ECONNABORTED", "ETIMEDOUT"} =>
         \A r \in ValidResults(c) :
           r.status = "failed" /\ r.error = Some("Request timed out")
    /\ LastTransportCode(c) \in {"ECONNREFUSED", "ENOTFOUND"} =>
         \A r \in ValidResults(c) :
           r.status = "failed" /\ r.error = Some("Failed to connect to Laneful API")

\* C40: every sendEmails call eventually settles, provided each HTTP
\* request eventually returns or fails and each backoff sleep eventually
\* ends: the retry loop terminates for every sequence of attempt outcomes.
C40_EveryCallSettles ==
  \A c \in SequentialCalls :
    (call[c].pc \notin {"idle", "resolved", "rejected"})
      ~> (call[c].pc \in {"resolved", "rejected"})

\* a call that used every attempt (three requests, three retryable
\* failures) and settled
C40_Witness ==
  /\ retryOptions.maxRetries = 2
  /\ call["c1"].pc = "resolved"
  /\ call["c1"].httpCalls = 3
  /\ call["c1"].retryableFailures = 3
  /\ call["c1"].attempt = 2

\* the elements of a call that are objects without discriminator
LackingDiscriminator(d) ==
  {i \in DOMAIN d.elements :
     d.elements[i].eventData.type = "object" /\ ~HasDiscriminator(d.elements[i].eventData)}

\* C36 as stated: if at least one element of a batch lacks the
\* discriminator, the promise returned by processWebhook rejects with the
\* 'missing required field' error.
C36_Original ==
  (IsBatch(dispatch) /\ LackingDiscriminator(dispatch) # {}) =>
     /\ dispatch.promise.state = "rejected"
     /\ Get(dispatch.promise.error).message
          = "Webhook payload missing required field: event"

\* C36: if at least one element of a batch lacks the discriminator, the
\* promise returned by processWebhook rejects, also when other elements were
\* dispatched successfully, and stays rejected with the same error: the
\* error of the first element, in batch order, that failed before the call
\* returned, which is the 'missing required field' error when no earlier
\* element failed that way (a null element, a handler that threw).
C36_BatchParseErrorPropagates ==
  [][/\ (Started /\ IsBatch(dispatch') /\ LackingDiscriminator(dispatch') # {}) =>
          LET failed == {i \in DOMAIN dispatch'.elements :
                           dispatch'.elements[i].promise.state = "rejected"}
              first == CHOOSE i \in failed : \A j \in failed : i <= j
          IN /\ dispatch'.promise.state = "rejected"
             /\ dispatch'.promise.error = dispatch'.elements[first].promise.error
             /\ first \in LackingDiscriminator(dispatch') =>
                  Get(dispatch'.promise.error).message
                    = "Webhook payload missing required field: event"
             /\ LackingDiscriminator(dispatch') \subseteq failed
     /\ (Continued /\ dispatch.promise.state = "rejected") =>
          dispatch'.promise = dispatch.promise]_vars

\* the delivery event of a batch was handled and the call rejected for the
\* second element, which has no discriminator
C36_Witness ==
  /\ IsBatch(dispatch)
  /\ Len(dispatch.elements) = 2
  /\ dispatch.elements[1].eventData = JsonObject(DeliveryData)
  /\ Len(dispatch.elements[1].calls) = 1
  /\ dispatch.elements[1].promise.state = "fulfilled"
  /\ dispatch.elements[2].eventData = JsonObject(NoEventData)
  /\ dispatch.promise = Rejected(MissingEventError)

\* one EmailResponse of a list returned for n emails is well formed
WellFormedResponse(r, n) ==
  /\ r.status \in {"accepted", "failed", "validation_failed"}
  /\ r.success \in BOOLEAN
  /\ r.success <=> (r.status = "accepted")
  /\ (r.error = None) <=> r.success
  /\ r.index \in 0..(n - 1)

\* C37: every result of every list sendEmails returns has one of the three
\* statuses, success exactly when the status is 'accepted', no error exactly
\* when success, and an index within the input list; so has the result that
\* sendEmail passes on.
C37_ResultsWellFormed ==
  \A c \in Calls :
    call[c].pc = "resolved" =>
      /\ \A i \in DOMAIN call[c].result :
           WellFormedResponse(call[c].result[i], Len(call[c].emails))
      /\ IsSome(call[c].value) =>
           WellFormedResponse(Get(call[c].value), Len(call[c].emails))

\* a returned list holding an accepted and a validation_failed result
C37_Witness ==
  \E c \in Calls :
    /\ call[c].pc = "resolved"
    /\ \E i, j \in DOMAIN call[c].result :
         /\ call[c].result[i].status = "accepted"
         /\ call[c].result[j].status = "validation_failed"

\* call c starts and is over in this step, so that it issued no HTTP request
EndsWithoutRequest(c) ==
  /\ call[c].pc = "idle"
  /\ call'[c].pc \in {"resolved", "rejected"}

\* C38 as stated: a sendEmails call that issues no HTTP request (empty
\* list, every email invalid, refused by the limiter) leaves requestCount
\* and windowStart as they were, for every maxRequests >= 0.
C38_Original ==
  [][\A c \in Calls :
       EndsWithoutRequest(c) =>
         /\ requestCount' = requestCount
         /\ windowStart' = windowStart]_vars

\* C38: a sendEmails call that issues no HTTP request leaves requestCount as
\* it was; it leaves windowStart as it was too, unless the limiter refuses
\* it when the window has elapsed, which happens with maxRequests = 0 only:
\* that call sets windowStart to the current time.
C38_NoRequestNoQuota ==
  [][\A c \in Calls :
       EndsWithoutRequest(c) =>
         /\ call'[c].httpCalls = 0
         /\ requestCount' = requestCount
         /\ IF call'[c].refused /\ WindowElapsed
              THEN /\ Get(rateLimitOptions).maxRequests = 0
                   /\ windowStart' = now
              ELSE windowStart' = windowStart]_vars

\* a call refused with maxRequests = 0 after the first window elapsed: the
\* window was restarted, the counter is still 0
C38_Witness ==
  \E c \in Calls :
    /\ call[c].refused
    /\ call[c].pc = "resolved"
    /\ call[c].httpCalls = 0
    /\ IsSome(rateLimitOptions)
    /\ Get(rateLimitOptions).maxRequests = 0
    /\ windowStart = now
    /\ now >= Get(rateLimitOptions).windowMs
    /\ requestCount = 0

\* C39 as stated: whenever the limiter refuses a call, the wait it reports
\* is positive and at most one window: the message reads 'Try again in k
\* seconds' with 1 <= k <= ceil(windowMs / 1000), for maxRequests >= 0.
C39_Original ==
  \A c \in Calls :
    (call[c].refused /\ call[c].pc = "resolved") =>
      \A r \in Range(call[c].result) :
        r.status = "failed" => IsRateLimitResult(r)

====
